---------------------------- MODULE Spec2Model ----------------------------
(***************************************************************************)
(* Burbs Challenge dashboard: the Strava sync (ingestion and merge into    *)
(* the Redis store), the date-correction endpoint, and the aggregation of  *)
(* a batch of club activities into scoreboard, individual leaderboard and  *)
(* daily tracker.                                                          *)
(*                                                                         *)
(* Conventions of the model                                                *)
(*  - A JavaScript string that the code only compares or uses as a key is  *)
(*    a TLA+ string.  A string the code computes (display name, hash       *)
(*    input, activity id) is the sequence of its UTF-16 char codes;        *)
(*    CharCodes gives the codes of the strings of the model's vocabulary.  *)
(*  - A calendar date "YYYY-MM-DD" is the tuple <<YYYY, MM, DD>>; the      *)
(*    sentinel "Unknown" is the tuple Unknown.  A date string of another   *)
(*    form is a tuple of another length.                                   *)
(*  - Distances and elevation gains are whole metres.  A quantity the code *)
(*    holds in km (distance / 1000) is held here in metres, and            *)
(*    floor(km * rate) is computed exactly on integers; the rounding error *)
(*    of IEEE doubles is not modelled.                                     *)
(*  - null / undefined is the string Null where a string is expected and   *)
(*    the empty tuple where a tuple is expected.                           *)
(*  - The storedAt timestamp of a stored activity is left out: no          *)
(*    operation reads it.                                                  *)
(*  - Every await of a handler that reaches Redis or Strava is one step;   *)
(*    the steps of a sync and of a date correction interleave freely.  A   *)
(*    sync observes the source only in its fetch, so the batch is drawn    *)
(*    there.  One sync and one date correction are in flight at a time.    *)
(*  - In Spec every Redis and Strava call succeeds and the bodies of date   *)
(*    corrections pass the handler's validation.  ErrorSpec adds the       *)
(*    failing calls and the rejected and malformed bodies, over a smaller  *)
(*    set of inputs.                                                       *)
(*  - StoreSpec is the storage library alone, called by two concurrent     *)
(*    callers; IdSpec is the id assignment of consecutive passes, each     *)
(*    with a fresh usedIds map; DashSpec is the dashboard aggregation.     *)
(*  - PointsSpec is calculatePoints over a grid of inputs; StravaSpec is   *)
(*    the Strava client (token cache and paging); SameBatchSpec runs the   *)
(*    dashboard's and the sync's id assignment over one batch;             *)
(*    LateDateSpec is consecutive syncs against a source that reports a    *)
(*    local date only later.                                               *)
(***************************************************************************)
EXTENDS Integers, Sequences, FiniteSets, TLC

VARIABLES
    feed,               \* what the Strava club endpoint currently returns
    activity_dates,     \* Redis hash 'activity_dates': id -> manual date
    stored_activities,  \* Redis key 'stored_activities': array of records
    last_sync,          \* Redis key 'last_sync'
    clock,              \* logical time, advanced by each started sync
    sync,               \* the sync handler: program counter and locals
    post,               \* the date-correction handler: pc and locals
    hist,               \* history of the last persisted sync
    dashboard,          \* last response of the dashboard endpoint
    db,                 \* callers of lib/db: the operation in progress of each
    pass,               \* one pass of generateActivityId over a batch
    points,             \* the last call of calculatePoints and its result
    env,                \* process.env: which Strava settings are present
    strava              \* lib/strava: the token cache and the fetch in progress

vars == <<feed, activity_dates, stored_activities, last_sync, clock, sync, post, hist, dashboard, db, pass, points, env, strava>>

Null == "null"

Unknown == <<"Unknown">>

(***************************************************************************)
(* Bounds of the model.                                                    *)
(***************************************************************************)
MaxFeed == 1

MaxDashFeed == 3

MaxSyncs == 2

MaxCallers == 2

MaxPass == 3

(***************************************************************************)
(* Strings.                                                                *)
(***************************************************************************)
CharCodes ==
    "richard c." :> <<114, 105, 99, 104, 97, 114, 100, 32, 99, 46>> @@
    "michael m." :> <<109, 105, 99, 104, 97, 101, 108, 32, 109, 46>> @@
    "pete s." :> <<112, 101, 116, 101, 32, 115, 46>> @@
    "brett s." :> <<98, 114, 101, 116, 116, 32, 115, 46>> @@
    "robert a." :> <<114, 111, 98, 101, 114, 116, 32, 97, 46>> @@
    "robbie t." :> <<114, 111, 98, 98, 105, 101, 32, 116, 46>> @@
    "steven h." :> <<115, 116, 101, 118, 101, 110, 32, 104, 46>> @@
    "keith s." :> <<107, 101, 105, 116, 104, 32, 115, 46>> @@
    "pierre c." :> <<112, 105, 101, 114, 114, 101, 32, 99, 46>> @@
    "pete h." :> <<112, 101, 116, 101, 32, 104, 46>> @@
    "matt m." :> <<109, 97, 116, 116, 32, 109, 46>> @@
    "dylan h." :> <<100, 121, 108, 97, 110, 32, 104, 46>> @@
    "lisle kenneth c." :> <<108, 105, 115, 108, 101, 32, 107, 101, 110, 110, 101, 116, 104, 32, 99, 46>> @@
    "ad s." :> <<97, 100, 32, 115, 46>> @@
    "geoffrey w." :> <<103, 101, 111, 102, 102, 114, 101, 121, 32, 119, 46>> @@
    "graeme b." :> <<103, 114, 97, 101, 109, 101, 32, 98, 46>> @@
    "chris g." :> <<99, 104, 114, 105, 115, 32, 103, 46>> @@
    "Pete" :> <<80, 101, 116, 101>> @@
    "Stone" :> <<83, 116, 111, 110, 101>> @@
    "Ad" :> <<65, 100>> @@
    "Smith" :> <<83, 109, 105, 116, 104>> @@
    "Keith" :> <<75, 101, 105, 116, 104>> @@
    "Zoe" :> <<90, 111, 101>> @@
    "Quinn" :> <<81, 117, 105, 110, 110>> @@
    "" :> <<>> @@
    "AM" :> <<65, 77>> @@
    "PM" :> <<80, 77>> @@
    "Aa" :> <<65, 97>> @@
    "BB" :> <<66, 66>> @@
    "Run" :> <<82, 117, 110>> @@
    "TrailRun" :> <<84, 114, 97, 105, 108, 82, 117, 110>> @@
    "Ride" :> <<82, 105, 100, 101>> @@
    "MountainBikeRide" :> <<77, 111, 117, 110, 116, 97, 105, 110, 66, 105, 107, 101, 82, 105, 100, 101>> @@
    "VirtualRide" :> <<86, 105, 114, 116, 117, 97, 108, 82, 105, 100, 101>> @@
    "Swim" :> <<83, 119, 105, 109>> @@
    "Workout" :> <<87, 111, 114, 107, 111, 117, 116>> @@
    "WeightTraining" :> <<87, 101, 105, 103, 104, 116, 84, 114, 97, 105, 110, 105, 110, 103>> @@
    "HighIntensityIntervalTraining" :> <<72, 105, 103, 104, 73, 110, 116, 101, 110, 115, 105, 116, 121, 73, 110, 116, 101, 114, 118, 97, 108, 84, 114, 97, 105, 110, 105, 110, 103>> @@
    "Kayaking" :> <<75, 97, 121, 97, 107, 105, 110, 103>> @@
    "Canoeing" :> <<67, 97, 110, 111, 101, 105, 110, 103>> @@
    "StandUpPaddling" :> <<83, 116, 97, 110, 100, 85, 112, 80, 97, 100, 100, 108, 105, 110, 103>> @@
    "Rowing" :> <<82, 111, 119, 105, 110, 103>> @@
    "Surfing" :> <<83, 117, 114, 102, 105, 110, 103>> @@
    "Yoga" :> <<89, 111, 103, 97>>

Range(s) == {s[i] : i \in DOMAIN s}

\* String.prototype.trim on char codes (space is the only blank of the vocabulary)
RECURSIVE TrimLeft(_)
TrimLeft(s) ==
    IF s # <<>> /\ Head(s) = 32 THEN TrimLeft(Tail(s)) ELSE s

RECURSIVE TrimRight(_)
TrimRight(s) ==
    IF s # <<>> /\ s[Len(s)] = 32 THEN TrimRight(SubSeq(s, 1, Len(s) - 1)) ELSE s

Trim(s) == TrimRight(TrimLeft(s))

\* String.prototype.toLowerCase on char codes: A-Z become a-z
ToLowerCase(s) ==
    [i \in DOMAIN s |-> IF s[i] >= 65 /\ s[i] <= 90 THEN s[i] + 32 ELSE s[i]]

\* Number.prototype.toString for a whole number n >= 0: its decimal digits
RECURSIVE NumberToString(_)
NumberToString(n) ==
    IF n < 10 THEN <<48 + n>> ELSE NumberToString(n \div 10) \o <<48 + (n % 10)>>

(***************************************************************************)
(* The 32-bit string hash.  A 32-bit word is the pair <<hi, lo>> of its    *)
(* two 16-bit halves, so that no intermediate value leaves the 32 bits.    *)
(***************************************************************************)
Half == 65536

\* hash = ((hash << 5) - hash) + char; hash = hash & hash
\* i.e. 31 * hash + char, wrapped to 32 bits
HashStep(h, char) ==
    LET lo == 31 * h[2] + char
        hi == 31 * h[1] + (lo \div Half)
    IN  <<hi % Half, lo % Half>>

RECURSIVE HashFrom(_, _)
HashFrom(h, str) ==
    IF str = <<>> THEN h ELSE HashFrom(HashStep(h, Head(str)), Tail(str))

\* Math.abs of the word read as a signed 32-bit integer (two's complement)
Abs32(h) ==
    IF h[1] < Half \div 2 THEN h
    ELSE IF h[2] = 0 THEN <<Half - h[1], 0>>
    ELSE <<Half - 1 - h[1], Half - h[2]>>

\* toString of a word: its decimal digits, by long division by 10
RECURSIVE WordToString(_)
WordToString(h) ==
    LET t == (h[1] % 10) * Half + h[2]
        q == <<h[1] \div 10, t \div 10>>
    IN  IF h[1] = 0 /\ h[2] < 10 THEN <<48 + h[2]>>
        ELSE WordToString(q) \o <<48 + (t % 10)>>

\* activity.sport_type || activity.type
TypeOf(activity) ==
    IF activity.sport_type # "" THEN activity.sport_type ELSE activity.type

\* the hashed string with the elevation gain added to it
HashInputWithGain(activity, athleteName) ==
    athleteName \o <<124>> \o CharCodes[activity.name] \o <<124>>
        \o NumberToString(activity.distance) \o <<124>> \o CharCodes[TypeOf(activity)]
        \o <<124>> \o NumberToString(activity.total_elevation_gain)

\* `${athleteName}|${activity.name}|${activity.distance}|${sport_type || type}`
HashInput(activity, athleteName) ==
    athleteName \o <<124>> \o CharCodes[activity.name] \o <<124>>
        \o NumberToString(activity.distance) \o <<124>> \o CharCodes[TypeOf(activity)]

BaseId(activity, athleteName) ==
    WordToString(Abs32(HashFrom(<<0, 0>>, HashInput(activity, athleteName))))

\* a JavaScript Map / Record with string keys and no order of interest
MapGet(m, k, default) == IF k \in DOMAIN m THEN m[k] ELSE default

MapPut(m, k, v) == [x \in DOMAIN m \cup {k} |-> IF x = k THEN v ELSE m[x]]

EmptyMap == <<>>

\* generateActivityId: the id, and the counter map after the call
UsedIdsAfter(activity, athleteName, usedIds) ==
    LET baseId == BaseId(activity, athleteName)
    IN  MapPut(usedIds, baseId, MapGet(usedIds, baseId, 0) + 1)

\* generateActivityId without the suffix: the bare base id every time
BareBaseId(activity, athleteName, usedIds) == BaseId(activity, athleteName)

generateActivityId(activity, athleteName, usedIds) ==
    LET baseId == BaseId(activity, athleteName)
        count == MapGet(usedIds, baseId, 0)
    IN  IF count = 0 THEN baseId ELSE baseId \o <<95>> \o NumberToString(count)

\* getAthleteDisplayName
getAthleteDisplayName(activity) ==
    LET firstName == CharCodes[activity.athlete.firstname]
        last == CharCodes[activity.athlete.lastname]
        lastInitial == IF last # <<>> THEN <<Head(last), 46>> ELSE <<>>
    IN  Trim(firstName \o <<32>> \o lastInitial)

(***************************************************************************)
(* Teams.                                                                  *)
(***************************************************************************)
TEMPO_TANTRUMS == "Tempo Tantrums"

POINTS_PINTS == "Points & Pints"

ATHLETE_TEAMS ==
    "richard c." :> TEMPO_TANTRUMS @@ "michael m." :> TEMPO_TANTRUMS @@
    "pete s." :> TEMPO_TANTRUMS @@ "brett s." :> TEMPO_TANTRUMS @@
    "robert a." :> TEMPO_TANTRUMS @@ "robbie t." :> TEMPO_TANTRUMS @@
    "steven h." :> TEMPO_TANTRUMS @@ "keith s." :> TEMPO_TANTRUMS @@
    "pierre c." :> POINTS_PINTS @@ "pete h." :> POINTS_PINTS @@
    "matt m." :> POINTS_PINTS @@ "dylan h." :> POINTS_PINTS @@
    "lisle kenneth c." :> POINTS_PINTS @@ "ad s." :> POINTS_PINTS @@
    "geoffrey w." :> POINTS_PINTS @@ "graeme b." :> POINTS_PINTS @@
    "chris g." :> POINTS_PINTS

\* getAthleteTeam: case-insensitive lookup, null when the athlete is in no team
getAthleteTeam(athleteName) ==
    LET normalizedName == Trim(ToLowerCase(athleteName))
        hits == {k \in DOMAIN ATHLETE_TEAMS : CharCodes[k] = normalizedName}
    IN  IF hits = {} THEN Null ELSE ATHLETE_TEAMS[CHOOSE k \in hits : TRUE]

(***************************************************************************)
(* Points.                                                                 *)
(***************************************************************************)
ACTIVITY_TYPE_MAP ==
    "Run" :> "Road Run" @@ "TrailRun" :> "Trail Run" @@ "Ride" :> "Cycle" @@
    "MountainBikeRide" :> "MTB" @@ "VirtualRide" :> "Cycle" @@ "Swim" :> "Swim" @@
    "Workout" :> "Workout" @@ "WeightTraining" :> "Workout" @@
    "HighIntensityIntervalTraining" :> "Workout" @@ "Kayaking" :> "Paddle Ski" @@
    "Canoeing" :> "Paddle Ski" @@ "StandUpPaddling" :> "Paddle Ski" @@
    "Rowing" :> "Paddle Ski" @@ "Surfing" :> "Paddle Ski"

\* Object.keys(POINTS_CONFIG), in insertion order
ActivityCategories ==
    <<"Road Run", "Trail Run", "Cycle", "MTB", "Swim", "Workout", "Paddle Ski">>

\* perKm is in hundredths of a point per km (1.1 is 110); an absent field is 0
POINTS_CONFIG ==
    "Road Run" :> [perKm |-> 100, perWorkout |-> 0] @@
    "Trail Run" :> [perKm |-> 110, perWorkout |-> 0] @@
    "Cycle" :> [perKm |-> 25, perWorkout |-> 0] @@
    "MTB" :> [perKm |-> 40, perWorkout |-> 0] @@
    "Swim" :> [perKm |-> 400, perWorkout |-> 0] @@
    "Workout" :> [perKm |-> 0, perWorkout |-> 6] @@
    "Paddle Ski" :> [perKm |-> 100, perWorkout |-> 0]

\* POINTS_CONFIG[type], with both fields 0 for a type that has no entry
ConfigOf(type) ==
    IF type \in DOMAIN POINTS_CONFIG THEN POINTS_CONFIG[type]
    ELSE [perKm |-> 0, perWorkout |-> 0]

ELEVATION_POINTS_PER_1000M == 6

\* ELEVATION_ELIGIBLE_TYPES with every category of POINTS_CONFIG
ALL_CATEGORIES_ELIGIBLE ==
    {"Road Run", "Trail Run", "Cycle", "MTB", "Swim", "Workout", "Paddle Ski"}

ELEVATION_ELIGIBLE_TYPES == {"Road Run", "Trail Run", "Cycle", "MTB"}

\* FloorKmPoints rounded to the nearest point
RoundKmPoints(metres, perKm) == (metres * perKm + 50000) \div 100000

\* Math.floor(distanceKm * perKm), distance in metres, perKm in hundredths
FloorKmPoints(metres, perKm) == (metres * perKm) \div 100000

\* FloorElevationPoints with the floor taken after the multiplication
FloorScaledElevationPoints(metres) == (metres * ELEVATION_POINTS_PER_1000M) \div 1000

\* Math.floor(metres / 1000) * ELEVATION_POINTS_PER_1000M
FloorElevationPoints(metres) == (metres \div 1000) * ELEVATION_POINTS_PER_1000M

calculatePoints(stravaType, distanceMeters, elevationGain) ==
    LET normalizedType ==
            IF stravaType \in DOMAIN ACTIVITY_TYPE_MAP
            THEN ACTIVITY_TYPE_MAP[stravaType] ELSE "Other"
        config == ConfigOf(normalizedType)
        activityPoints ==
            IF config.perKm # 0 THEN FloorKmPoints(distanceMeters, config.perKm)
            ELSE IF config.perWorkout # 0 THEN config.perWorkout
            ELSE 0
        elevationPoints ==
            IF normalizedType \in ELEVATION_ELIGIBLE_TYPES
            THEN FloorElevationPoints(elevationGain) ELSE 0
    IN  [activityPoints |-> activityPoints,
         elevationPoints |-> elevationPoints,
         totalPoints |-> activityPoints + elevationPoints,
         activityType |-> stravaType,
         normalizedType |-> normalizedType]

(***************************************************************************)
(* Dates.                                                                  *)
(***************************************************************************)
\* the date the source reports: start_date_local.split('T')[0], or null
SourceDate(activity) ==
    IF activity.start_date_local # <<>> THEN activity.start_date_local[1] ELSE <<>>

\* isFebruaryActivity without the test of the month
isDatedActivity(dateStr) == dateStr # Unknown

\* isFebruaryActivity: dateStr.startsWith('2026-02')
isFebruaryActivity(dateStr) ==
    /\ dateStr # Unknown
    /\ dateStr[1] = 2026
    /\ dateStr[2] = 2

\* order of new Date(date).getTime()
DateKey(date) == (date[1] * 100 + date[2]) * 100 + date[3]

\* order of the date strings as String.prototype compares them: the year and
\* the month, then the first character of the day and what follows it
StringKey(date) ==
    LET first == IF Len(date) = 3 THEN date[3] \div 10 ELSE date[3]
        second == IF Len(date) = 3 THEN 1 + (date[3] % 10) ELSE 0
    IN  ((date[1] * 100 + date[2]) * 10 + first) * 11 + second

(***************************************************************************)
(* Aggregation: processActivities.                                         *)
(***************************************************************************)
RECURSIVE SumFn(_)
SumFn(f) ==
    IF DOMAIN f = {} THEN 0
    ELSE LET k == CHOOSE x \in DOMAIN f : TRUE
         IN  f[k] + SumFn([x \in DOMAIN f \ {k} |-> f[x]])

\* storedDates[id] || source date || 'Unknown'
DashboardDate(activity, activityId, storedDates) ==
    IF activityId \in DOMAIN storedDates THEN storedDates[activityId]
    ELSE IF SourceDate(activity) # <<>> THEN SourceDate(activity)
    ELSE Unknown

\* the state of processActivities before its loop
ProcessInit ==
    [activities |-> <<>>,
     individualMap |-> <<>>,
     dailyMap |-> EmptyMap,
     distanceMap |-> [c \in Range(ActivityCategories) |-> [tempoKm |-> 0, pintsKm |-> 0]],
     elevationTotals |-> [tempoMeters |-> 0, pintsMeters |-> 0],
     workoutCounts |-> [tempoCount |-> 0, pintsCount |-> 0],
     usedIds |-> EmptyMap]

\* individualMap after the loop body's update for one in-window activity
IndividualUpdate(individualMap, athleteName, team, stravaActivity, pts) ==
    LET fresh == [name |-> athleteName, team |-> team, totalPoints |-> 0,
                  activities |-> EmptyMap, elevation |-> 0, elevationPoints |-> 0]
        has == \E i \in DOMAIN individualMap : individualMap[i].name = athleteName
        map == IF has THEN individualMap ELSE Append(individualMap, fresh)
        at == CHOOSE i \in DOMAIN map : map[i].name = athleteName
        individual == map[at]
        entry == MapGet(individual.activities, pts.normalizedType, [distance |-> 0, points |-> 0])
    IN  [map EXCEPT ![at] =
            [individual EXCEPT
                !.totalPoints = @ + pts.totalPoints,
                !.elevation = @ + stravaActivity.total_elevation_gain,
                !.elevationPoints = @ + pts.elevationPoints,
                !.activities = MapPut(@, pts.normalizedType,
                    [distance |-> entry.distance + stravaActivity.distance,
                     points |-> entry.points + pts.activityPoints])]]

\* AccumulateDistance with the floor taken per activity: whole km only
AccumulateWholeKm(distanceMap, scoreKey, team, distanceKm) ==
    LET whole == (distanceKm \div 1000) * 1000
    IN  IF scoreKey = "Workout" \/ scoreKey \notin DOMAIN distanceMap THEN distanceMap
        ELSE IF team = TEMPO_TANTRUMS
        THEN [distanceMap EXCEPT ![scoreKey].tempoKm = @ + whole]
        ELSE [distanceMap EXCEPT ![scoreKey].pintsKm = @ + whole]

\* the loop body's update of distanceMap for one in-window activity
AccumulateDistance(distanceMap, scoreKey, team, distanceKm) ==
    IF scoreKey = "Workout" \/ scoreKey \notin DOMAIN distanceMap THEN distanceMap
    ELSE IF team = TEMPO_TANTRUMS
    THEN [distanceMap EXCEPT ![scoreKey].tempoKm = @ + distanceKm]
    ELSE [distanceMap EXCEPT ![scoreKey].pintsKm = @ + distanceKm]

\* the loop body's update of elevationTotals for one in-window activity
AccumulateElevation(elevationTotals, normalizedType, team, gain) ==
    IF normalizedType \notin ELEVATION_ELIGIBLE_TYPES THEN elevationTotals
    ELSE IF team = TEMPO_TANTRUMS
    THEN [elevationTotals EXCEPT !.tempoMeters = @ + gain]
    ELSE [elevationTotals EXCEPT !.pintsMeters = @ + gain]

\* one iteration of the loop over stravaActivities
ProcessStep(acc, stravaActivity, storedDates) ==
    LET athleteName == getAthleteDisplayName(stravaActivity)
        team == getAthleteTeam(athleteName)
        pts == calculatePoints(TypeOf(stravaActivity), stravaActivity.distance,
                               stravaActivity.total_elevation_gain)
        normalizedType == pts.normalizedType
        activityId == generateActivityId(stravaActivity, athleteName, acc.usedIds)
        dateStr == DashboardDate(stravaActivity, activityId, storedDates)
        processed ==
            [id |-> activityId, date |-> dateStr, athlete |-> athleteName, team |-> team,
             type |-> TypeOf(stravaActivity), normalizedType |-> normalizedType,
             distance |-> (stravaActivity.distance + 5) \div 10,   \* hundredths of a km
             elevation |-> stravaActivity.total_elevation_gain,
             points |-> pts.activityPoints, elevationPoints |-> pts.elevationPoints,
             totalPoints |-> pts.totalPoints, title |-> stravaActivity.name]
        tempo == team = TEMPO_TANTRUMS
        scoreKey == IF normalizedType = "Other" THEN "Workout" ELSE normalizedType
        listed == [acc EXCEPT
            !.activities = Append(@, processed),
            !.usedIds = UsedIdsAfter(stravaActivity, athleteName, @)]
        daily == MapGet(acc.dailyMap, dateStr, [tempoTantrums |-> 0, pointsPints |-> 0])
    IN  IF team = Null THEN acc
        ELSE IF ~isFebruaryActivity(dateStr) THEN listed
        ELSE [listed EXCEPT
            !.workoutCounts =
                IF scoreKey # "Workout" THEN @
                ELSE IF tempo THEN [@ EXCEPT !.tempoCount = @ + 1]
                ELSE [@ EXCEPT !.pintsCount = @ + 1],
            !.distanceMap = AccumulateDistance(@, scoreKey, team, stravaActivity.distance),
            !.elevationTotals = AccumulateElevation(@, normalizedType, team,
                                                    stravaActivity.total_elevation_gain),
            !.individualMap = IndividualUpdate(@, athleteName, team, stravaActivity, pts),
            !.dailyMap = MapPut(@, dateStr,
                IF tempo THEN [daily EXCEPT !.tempoTantrums = @ + pts.totalPoints]
                ELSE [daily EXCEPT !.pointsPints = @ + pts.totalPoints])]

RECURSIVE ProcessLoop(_, _, _)
ProcessLoop(acc, stravaActivities, storedDates) ==
    IF stravaActivities = <<>> THEN acc
    ELSE ProcessLoop(ProcessStep(acc, Head(stravaActivities), storedDates),
                     Tail(stravaActivities), storedDates)

\* the distance-based rows, in the order of distanceMap
RECURSIVE DistanceRows(_, _)
DistanceRows(categories, distanceMap) ==
    IF categories = <<>> THEN <<>>
    ELSE LET activityType == Head(categories)
             distances == distanceMap[activityType]
             config == ConfigOf(activityType)
             rest == DistanceRows(Tail(categories), distanceMap)
         IN  IF config.perKm # 0 /\ (distances.tempoKm > 0 \/ distances.pintsKm > 0)
             THEN <<[activity |-> activityType,
                     tempoTantrums |-> FloorKmPoints(distances.tempoKm, config.perKm),
                     pointsPints |-> FloorKmPoints(distances.pintsKm, config.perKm)]>> \o rest
             ELSE rest

WorkoutRows(workoutCounts) ==
    IF workoutCounts.tempoCount > 0 \/ workoutCounts.pintsCount > 0
    THEN <<[activity |-> "Workout",
            tempoTantrums |-> workoutCounts.tempoCount * 6,
            pointsPints |-> workoutCounts.pintsCount * 6]>>
    ELSE <<>>

ElevationRows(elevationTotals) ==
    LET tempoElevationPoints == FloorElevationPoints(elevationTotals.tempoMeters)
        pintsElevationPoints == FloorElevationPoints(elevationTotals.pintsMeters)
    IN  IF tempoElevationPoints > 0 \/ pintsElevationPoints > 0
        THEN <<[activity |-> "Elevation",
                tempoTantrums |-> tempoElevationPoints,
                pointsPints |-> pintsElevationPoints]>>
        ELSE <<>>

RECURSIVE SumRows(_, _)
SumRows(scoreboard, team) ==
    IF scoreboard = <<>> THEN 0
    ELSE (IF team = TEMPO_TANTRUMS THEN Head(scoreboard).tempoTantrums
          ELSE Head(scoreboard).pointsPints) + SumRows(Tail(scoreboard), team)

\* one individual, its points recalculated from the cumulative values
RecalculateIndividual(ind) ==
    LET pointsOf(activityType) ==
            LET config == ConfigOf(activityType)
                data == ind.activities[activityType]
            IN  IF config.perKm # 0 THEN FloorKmPoints(data.distance, config.perKm)
                ELSE IF config.perWorkout # 0 THEN data.points
                ELSE 0
        recalculatedActivities ==
            [t \in DOMAIN ind.activities |->
                [distance |-> ind.activities[t].distance, points |-> pointsOf(t)]]
        totalActivityPoints == SumFn([t \in DOMAIN ind.activities |-> pointsOf(t)])
        calculatedElevationPoints == FloorElevationPoints(ind.elevation)
    IN  [ind EXCEPT
            !.activities = recalculatedActivities,
            !.elevationPoints = calculatedElevationPoints,
            !.totalPoints = totalActivityPoints + calculatedElevationPoints]

\* SortByPointsDesc with an element placed before those of equal points
RECURSIVE SortByPointsTiesReversed(_)
SortByPointsTiesReversed(s) ==
    IF s = <<>> THEN <<>>
    ELSE LET x == s[Len(s)]
             sorted == SortByPointsTiesReversed(SubSeq(s, 1, Len(s) - 1))
             k == Cardinality({i \in DOMAIN sorted : sorted[i].totalPoints > x.totalPoints})
         IN  SubSeq(sorted, 1, k) \o <<x>> \o SubSeq(sorted, k + 1, Len(sorted))

\* Array.prototype.sort((a, b) => b.totalPoints - a.totalPoints): stable
RECURSIVE SortByPointsDesc(_)
SortByPointsDesc(s) ==
    IF s = <<>> THEN <<>>
    ELSE LET x == s[Len(s)]
             sorted == SortByPointsDesc(SubSeq(s, 1, Len(s) - 1))
             k == Cardinality({i \in DOMAIN sorted : sorted[i].totalPoints >= x.totalPoints})
         IN  SubSeq(sorted, 1, k) \o <<x>> \o SubSeq(sorted, k + 1, Len(sorted))

\* Array.from(dailyMap.keys()).sort(): the keys in the order of their strings
RECURSIVE SortDates(_)
SortDates(dates) ==
    IF dates = {} THEN <<>>
    ELSE LET first == CHOOSE d \in dates : \A e \in dates : StringKey(d) <= StringKey(e)
         IN  <<first>> \o SortDates(dates \ {first})

\* the running totals over the sorted dates
RECURSIVE DailyRows(_, _, _, _)
DailyRows(sortedDates, dailyMap, tempoRunning, pintsRunning) ==
    IF sortedDates = <<>> THEN <<>>
    ELSE LET date == Head(sortedDates)
             daily == dailyMap[date]
             tempoTotal == tempoRunning + daily.tempoTantrums
             pintsTotal == pintsRunning + daily.pointsPints
         IN  <<[date |-> date,
                tempoTantrums |-> daily.tempoTantrums,
                pointsPints |-> daily.pointsPints,
                tempoTotal |-> tempoTotal,
                pintsTotal |-> pintsTotal]>>
             \o DailyRows(Tail(sortedDates), dailyMap, tempoTotal, pintsTotal)

\* activities.sort((a, b) => new Date(b.date).getTime() - new Date(a.date).getTime()):
\* newest first; 'Unknown' gives NaN, which the sort reads as "equal".  Each
\* element is moved left past the elements the comparator puts after it.
RECURSIVE SortByDateDesc(_)
SortByDateDesc(s) ==
    IF s = <<>> THEN <<>>
    ELSE LET x == s[Len(s)]
             sorted == SortByDateDesc(SubSeq(s, 1, Len(s) - 1))
             after(e) == /\ e.date # Unknown
                         /\ x.date # Unknown
                         /\ DateKey(x.date) > DateKey(e.date)
             stay == {i \in DOMAIN sorted : \E j \in i..Len(sorted) : ~after(sorted[j])}
             k == Cardinality(stay)
         IN  SubSeq(sorted, 1, k) \o <<x>> \o SubSeq(sorted, k + 1, Len(sorted))

Scoreboard(acc) ==
    DistanceRows(ActivityCategories, acc.distanceMap)
        \o WorkoutRows(acc.workoutCounts)
        \o ElevationRows(acc.elevationTotals)

processActivities(stravaActivities, storedDates) ==
    LET acc == ProcessLoop(ProcessInit, stravaActivities, storedDates)
        scoreboard == Scoreboard(acc)
    IN  [activities |-> SortByDateDesc(acc.activities),
         scoreboard |-> scoreboard,
         totals |-> [tempoTantrums |-> SumRows(scoreboard, TEMPO_TANTRUMS),
                     pointsPints |-> SumRows(scoreboard, POINTS_PINTS)],
         individuals |-> SortByPointsDesc(
             [i \in DOMAIN acc.individualMap |-> RecalculateIndividual(acc.individualMap[i])]),
         dailyTracker |-> DailyRows(SortDates(DOMAIN acc.dailyMap), acc.dailyMap, 0, 0)]

(***************************************************************************)
(* The source: the activities the club endpoint may report.                *)
(***************************************************************************)
Feb3 == <<2026, 2, 3>>

Feb4 == <<2026, 2, 4>>

Feb6 == <<2026, 2, 6>>

Jan31 == <<2026, 1, 31>>

\* a StravaActivity; when is the date part of start_date_local, <<>> if absent
Activity(firstname, lastname, title, type, distance, gain, when) ==
    [athlete |-> [firstname |-> firstname, lastname |-> lastname],
     name |-> title, type |-> type, sport_type |-> type,
     distance |-> distance, total_elevation_gain |-> gain,
     start_date_local |-> IF when = <<>> THEN <<>> ELSE <<when, "07:00:00Z">>]

\* the activities the dashboard model draws the feed from
DashCatalogue ==
    { Activity("Pete", "Stone", "AM", "Run", 5200, 1455, Feb3),
      Activity("Pete", "Stone", "PM", "Run", 4900, 600, Feb4),
      Activity("Ad", "Smith", "PM", "Workout", 0, 1455, Feb4),
      Activity("Ad", "Smith", "AM", "TrailRun", 4900, 600, <<>>),
      Activity("Pete", "Stone", "AM", "Yoga", 400, 0, Feb3),
      Activity("Keith", "Smith", "AM", "Run", 400, 0, Jan31),
      Activity("Zoe", "Quinn", "AM", "Run", 5200, 1455, Feb3),
      Activity("Ad", "Smith", "AM", "Ride", 12000, 400, Feb6) }

\* the dates a user enters on the dashboard
DashDates == {Feb4}

\* '2026-02-5': the fifth of February written without the leading zero
Feb5Unpadded == <<2026, 2, 5, "2026-02-5">>

\* the dates a bulk correction carries
DashBulkDates == {Feb5Unpadded}

(***************************************************************************)
(* Initial state: empty Redis, nothing reported, all handlers idle.        *)
(***************************************************************************)
NoResponse == [status |-> 0]

SyncIdle ==
    [pc |-> "idle", storedDates |-> EmptyMap, existingStored |-> <<>>,
     stravaActivities |-> <<>>, newStoredActivities |-> <<>>, existing |-> <<>>,
     newCount |-> 0, existingCount |-> 0, totalCount |-> 0, response |-> NoResponse,
     saved |-> TRUE, readFailed |-> FALSE]

PostIdle ==
    [pc |-> "idle", body |-> EmptyMap, hset |-> FALSE, activities |-> <<>>,
     existing |-> <<>>, response |-> NoResponse,
     dateSuccess |-> TRUE, readFailed |-> FALSE]

NoDashboard ==
    [served |-> FALSE, stravaActivities |-> <<>>, storedDates |-> EmptyMap,
     data |-> processActivities(<<>>, EmptyMap)]

\* a caller of lib/db with no operation in progress, and its last result
DbIdle == [pc |-> "idle", op |-> "none", arg |-> <<>>, activities |-> <<>>, result |-> Null]

Callers == 1..MaxCallers

\* every setting of lib/strava is present
DefaultEnv == [clubId |-> TRUE, credentials |-> TRUE]

\* lib/strava as the module is loaded: cachedAccessToken = null,
\* tokenExpiresAt = 0, and no fetch in progress
StravaIdle ==
    [cachedAccessToken |-> Null, tokenExpiresAt |-> 0, now |-> 0,
     pc |-> "idle", page |-> 1, allActivities |-> <<>>, received |-> <<>>,
     accessToken |-> Null, contacts |-> 0, tokenOutcome |-> "none",
     before |-> [cachedAccessToken |-> Null, tokenExpiresAt |-> 0],
     result |-> [outcome |-> "none", activities |-> <<>>]]

\* no call of calculatePoints yet
NoPoints == [stravaType |-> Null]

\* no pass of generateActivityId has begun
NoPass ==
    [stravaActivities |-> <<>>, usedIds |-> EmptyMap, ids |-> <<>>,
     prev |-> [stravaActivities |-> <<>>, ids |-> <<>>]]

\* history: what the last persisted sync wrote, whether a date correction
\* has taken a step since, and the ids the store held when the sync in
\* progress went to read it
NoHistory ==
    [store |-> <<>>, batch |-> <<>>, ids |-> {}, quiet |-> FALSE, clean |-> FALSE,
     full |-> FALSE, repeats |-> 0, before |-> {}]

Init ==
    /\ feed = <<>>
    /\ activity_dates = EmptyMap
    /\ stored_activities = <<>>
    /\ last_sync = 0
    /\ clock = 0
    /\ sync = SyncIdle
    /\ post = PostIdle
    /\ hist = NoHistory
    /\ dashboard = NoDashboard
    /\ db = [c \in Callers |-> DbIdle]
    /\ pass = NoPass
    /\ points = NoPoints
    /\ env = DefaultEnv
    /\ strava = StravaIdle

(***************************************************************************)
(* The dashboard endpoint and its environment.                             *)
(***************************************************************************)
\* the club reports one more activity
DashSourceReport ==
    /\ Len(feed) < MaxDashFeed
    /\ \E a \in DashCatalogue : feed' = Append(feed, a)
    /\ UNCHANGED <<activity_dates, stored_activities, last_sync, clock, sync, post, hist, dashboard, db, pass, points, env, strava>>

\* saveActivityDate: a user dates an activity listed on the dashboard
DashSaveDate ==
    /\ dashboard.served
    /\ activity_dates = EmptyMap
    /\ \E i \in DOMAIN dashboard.data.activities, date \in DashDates :
          activity_dates' = MapPut(activity_dates, dashboard.data.activities[i].id, date)
    /\ UNCHANGED <<feed, stored_activities, last_sync, clock, sync, post, hist, dashboard, db, pass, points, env, strava>>

\* saveActivityDates: a bulk correction dates an activity; its dates are
\* stored as they come
DashSaveDates ==
    /\ dashboard.served
    /\ activity_dates = EmptyMap
    /\ \E i \in DOMAIN dashboard.data.activities, date \in DashBulkDates :
          activity_dates' = MapPut(activity_dates, dashboard.data.activities[i].id, date)
    /\ UNCHANGED <<feed, stored_activities, last_sync, clock, sync, post, hist, dashboard, db, pass, points, env, strava>>

\* GET /api/strava: fetch the activities and the stored dates, aggregate
DashboardGET ==
    /\ dashboard' = [served |-> TRUE, stravaActivities |-> feed,
                     storedDates |-> activity_dates,
                     data |-> processActivities(feed, activity_dates)]
    /\ UNCHANGED <<feed, activity_dates, stored_activities, last_sync, clock, sync, post, hist, db, pass, points, env, strava>>

DashNext == DashSourceReport \/ DashSaveDate \/ DashSaveDates \/ DashboardGET

DashSpec == Init /\ [][DashNext]_vars

(***************************************************************************)
(* The store: lib/db.                                                      *)
(***************************************************************************)
Ids(activities) == {activities[i].id : i \in DOMAIN activities}

\* activityMap.set with the lookup by id left out: the record goes last
MapAppend(activityMap, activity) == Append(activityMap, activity)

\* Map.prototype.set(activity.id, activity): a new key goes last, a known key
\* keeps its place
MapSetById(activityMap, activity) ==
    IF \E i \in DOMAIN activityMap : activityMap[i].id = activity.id
    THEN [i \in DOMAIN activityMap |->
             IF activityMap[i].id = activity.id THEN activity ELSE activityMap[i]]
    ELSE Append(activityMap, activity)

RECURSIVE MapSetAll(_, _)
MapSetAll(activityMap, activities) ==
    IF activities = <<>> THEN activityMap
    ELSE MapSetAll(MapSetById(activityMap, Head(activities)), Tail(activities))

\* saveActivities with the merge by id left out: the new records are appended
AppendActivities(existing, activities) == existing \o activities

\* saveActivities: the array written for the existing array and the new records
MergeActivities(existing, activities) ==
    MapSetAll(MapSetAll(<<>>, existing), activities)

\* updateStoredActivityDate: the array written for the array read
WithDate(activities, activityId, date) ==
    [i \in DOMAIN activities |->
        IF activities[i].id = activityId THEN [activities[i] EXCEPT !.date = date]
        ELSE activities[i]]

\* the bulk path of POST: the stored activities with the new dates
WithDates(storedActivities, dates) ==
    [i \in DOMAIN storedActivities |->
        IF storedActivities[i].id \in DOMAIN dates
        THEN [storedActivities[i] EXCEPT !.date = dates[storedActivities[i].id]]
        ELSE storedActivities[i]]

\* redis.hset(ACTIVITY_DATES_KEY, dates)
HSet(hash, dates) ==
    [id \in DOMAIN hash \cup DOMAIN dates |->
        IF id \in DOMAIN dates THEN dates[id] ELSE hash[id]]

(***************************************************************************)
(* The sync: GET /api/sync.                                                *)
(***************************************************************************)
stravaToStoredActivity(stravaActivity, activityId, date) ==
    [id |-> activityId,
     athleteFirstname |-> stravaActivity.athlete.firstname,
     athleteLastname |-> stravaActivity.athlete.lastname,
     name |-> stravaActivity.name,
     type |-> stravaActivity.type,
     sport_type |-> stravaActivity.sport_type,
     distance |-> stravaActivity.distance,
     total_elevation_gain |-> stravaActivity.total_elevation_gain,
     date |-> date]

\* storedActivityMap.get(id)?.date, <<>> when there is no such record
StoredDate(storedActivityMap, id) ==
    IF \E i \in DOMAIN storedActivityMap : storedActivityMap[i].id = id
    THEN storedActivityMap[CHOOSE i \in DOMAIN storedActivityMap :
                               storedActivityMap[i].id = id].date
    ELSE <<>>

\* the date of the sync with the manual date taken first
OverrideFirstDate(activity, id, storedActivityMap, storedDates) ==
    IF id \in DOMAIN storedDates THEN storedDates[id]
    ELSE IF StoredDate(storedActivityMap, id) # <<>> THEN StoredDate(storedActivityMap, id)
    ELSE IF SourceDate(activity) # <<>> THEN SourceDate(activity)
    ELSE Unknown

\* existingStored?.date || storedDates[id] || source date || 'Unknown'
SyncDate(activity, id, storedActivityMap, storedDates) ==
    IF StoredDate(storedActivityMap, id) # <<>> THEN StoredDate(storedActivityMap, id)
    ELSE IF id \in DOMAIN storedDates THEN storedDates[id]
    ELSE IF SourceDate(activity) # <<>> THEN SourceDate(activity)
    ELSE Unknown

\* the state of the sync's loop before its first iteration
SyncLoopInit(existingStored) ==
    [storedActivityMap |-> MapSetAll(<<>>, existingStored),
     usedIds |-> EmptyMap, newStoredActivities |-> <<>>, newCount |-> 0]

\* one iteration of the loop over stravaActivities
SyncStep(acc, activity, storedDates) ==
    LET athleteName == getAthleteDisplayName(activity)
        id == generateActivityId(activity, athleteName, acc.usedIds)
        isNew == id \notin Ids(acc.storedActivityMap)
        date == SyncDate(activity, id, acc.storedActivityMap, storedDates)
        storedActivity == stravaToStoredActivity(activity, id, date)
    IN  [storedActivityMap |-> MapSetById(acc.storedActivityMap, storedActivity),
         usedIds |-> UsedIdsAfter(activity, athleteName, acc.usedIds),
         newStoredActivities |-> Append(acc.newStoredActivities, storedActivity),
         newCount |-> IF isNew THEN acc.newCount + 1 ELSE acc.newCount]

RECURSIVE SyncLoop(_, _, _)
SyncLoop(acc, stravaActivities, storedDates) ==
    IF stravaActivities = <<>> THEN acc
    ELSE SyncLoop(SyncStep(acc, Head(stravaActivities), storedDates),
                  Tail(stravaActivities), storedDates)

\* a request without the cron secret is turned away
SyncUnauthorized ==
    /\ sync.pc = "idle"
    /\ sync.response.status # 401
    /\ sync' = [SyncIdle EXCEPT !.response = [status |-> 401]]
    /\ UNCHANGED <<feed, activity_dates, stored_activities, last_sync, clock, post, hist, dashboard, db, pass, points, env, strava>>

\* storedDates = await getActivityDates()
SyncGetActivityDates ==
    /\ sync.pc = "idle"
    /\ clock < MaxSyncs
    /\ clock' = clock + 1
    /\ sync' = [SyncIdle EXCEPT !.pc = "getStoredActivities", !.storedDates = activity_dates]
    /\ hist' = [hist EXCEPT !.clean = (post.pc = "idle")]
    /\ UNCHANGED <<feed, activity_dates, stored_activities, last_sync, post, dashboard, db, pass, points, env, strava>>

\* existingStored = await getStoredActivities()
SyncGetStoredActivities ==
    /\ sync.pc = "getStoredActivities"
    /\ sync' = [sync EXCEPT !.pc = "fetchAllClubActivities",
                            !.existingStored = stored_activities,
                            !.existingCount = Cardinality(Ids(stored_activities))]
    /\ hist' = [hist EXCEPT !.before = Ids(stored_activities)]
    /\ UNCHANGED <<feed, activity_dates, stored_activities, last_sync, clock, post, dashboard, db, pass, points, env, strava>>

\* stravaActivities = await fetchAllClubActivities(), then the loop that
\* resolves id and date of every fetched activity
SyncFetch(batch) ==
    /\ sync.pc = "fetchAllClubActivities"
    /\ feed' = batch
    /\ LET done == SyncLoop(SyncLoopInit(sync.existingStored), batch, sync.storedDates)
       IN  sync' = [sync EXCEPT !.pc = "saveActivities",
                                !.stravaActivities = batch,
                                !.newStoredActivities = done.newStoredActivities,
                                !.newCount = done.newCount,
                                !.totalCount = Len(done.storedActivityMap)]
    /\ UNCHANGED <<activity_dates, stored_activities, last_sync, clock, post, hist, dashboard, db, pass, points, env, strava>>

\* saveActivities: existing = await getStoredActivities()
SyncSaveGet ==
    /\ sync.pc = "saveActivities"
    /\ sync' = [sync EXCEPT !.pc = "redis.set", !.existing = stored_activities]
    /\ UNCHANGED <<feed, activity_dates, stored_activities, last_sync, clock, post, hist, dashboard, db, pass, points, env, strava>>

\* the records of a and of b have the same ids, the same date per id, and
\* there are as many of them
SameIdsDatesCount(a, b) ==
    /\ Len(a) = Len(b)
    /\ Ids(a) = Ids(b)
    /\ \A i \in DOMAIN a, j \in DOMAIN b : a[i].id = b[j].id => a[i].date = b[j].date

\* saveActivities: await redis.set(STORED_ACTIVITIES_KEY, merged)
SyncSaveSet ==
    /\ sync.pc = "redis.set"
    /\ stored_activities' = MergeActivities(sync.existing, sync.newStoredActivities)
    /\ sync' = [sync EXCEPT !.pc = "setLastSync"]
    /\ hist' = [store |-> stored_activities',
                batch |-> sync.stravaActivities,
                ids |-> Ids(sync.newStoredActivities),
                quiet |-> TRUE,
                clean |-> FALSE,
                full |-> hist.clean,
                repeats |-> IF hist.quiet /\ hist.batch = sync.stravaActivities
                            THEN 1 ELSE 0,
                before |-> hist.before]
    /\ UNCHANGED <<feed, activity_dates, last_sync, clock, post, dashboard, db, pass, points, env, strava>>

\* await setLastSync()
SyncSetLastSync ==
    /\ sync.pc = "setLastSync"
    /\ last_sync' = clock
    /\ sync' = [sync EXCEPT !.pc = "getLastSync"]
    /\ UNCHANGED <<feed, activity_dates, stored_activities, clock, post, hist, dashboard, db, pass, points, env, strava>>

\* lastSync = await getLastSync(), and the response
SyncRespond ==
    /\ sync.pc = "getLastSync"
    /\ sync' = [SyncIdle EXCEPT !.response =
            [status |-> 200, success |-> TRUE,
             stats |-> [fetchedFromStrava |-> Len(sync.stravaActivities),
                        newActivities |-> sync.newCount,
                        previouslyStored |-> sync.existingCount,
                        totalStored |-> sync.totalCount,
                        lastSync |-> last_sync]]]
    /\ hist' = [hist EXCEPT !.before = {}]
    /\ UNCHANGED <<feed, activity_dates, stored_activities, last_sync, clock, post, dashboard, db, pass, points, env, strava>>

(***************************************************************************)
(* The date correction: POST /api/dates.                                   *)
(***************************************************************************)
\* a step of a date correction ends what the history knows of the last sync
Disturbed == [NoHistory EXCEPT !.before = hist.before]

\* /^\d{4}-\d{2}-\d{2}$/.test(date): a tuple of year, month and day stands
\* for a string of that form, any other tuple for a string that is not
IsDateFormat(date) == Len(date) = 3

\* the single path's checks of its body: both fields, and the date's format
IsValidSingle(body) ==
    /\ "activityId" \in DOMAIN body
    /\ "date" \in DOMAIN body
    /\ IsDateFormat(body.date)

\* the request arrives: the bulk path when the body has dates, else the
\* single path, whose two Redis calls are issued together
PostReceive(body) ==
    /\ post.pc = "idle"
    /\ "dates" \in DOMAIN body \/ IsValidSingle(body)
    /\ post' = [PostIdle EXCEPT !.body = body,
                                !.pc = IF "dates" \in DOMAIN body THEN "saveActivityDates"
                                       ELSE "getStoredActivities"]
    /\ UNCHANGED <<feed, activity_dates, stored_activities, last_sync, clock, sync, hist, dashboard, db, pass, points, env, strava>>

\* bulk: await saveActivityDates(body.dates)
PostBulkHSet ==
    /\ post.pc = "saveActivityDates"
    /\ activity_dates' = HSet(activity_dates, post.body.dates)
    /\ post' = [post EXCEPT !.pc = "getStoredActivities", !.hset = TRUE]
    /\ hist' = Disturbed
    /\ UNCHANGED <<feed, stored_activities, last_sync, clock, sync, dashboard, db, pass, points, env, strava>>

\* bulk: storedActivities = await getStoredActivities(), with the new dates
PostBulkGet ==
    /\ post.pc = "getStoredActivities"
    /\ "dates" \in DOMAIN post.body
    /\ post' = [post EXCEPT !.pc = "saveActivities",
                            !.activities = WithDates(stored_activities, post.body.dates)]
    /\ hist' = Disturbed
    /\ UNCHANGED <<feed, activity_dates, stored_activities, last_sync, clock, sync, dashboard, db, pass, points, env, strava>>

\* bulk: saveActivities: existing = await getStoredActivities()
PostBulkSaveGet ==
    /\ post.pc = "saveActivities"
    /\ post' = [post EXCEPT !.pc = "redis.set", !.existing = stored_activities]
    /\ hist' = Disturbed
    /\ UNCHANGED <<feed, activity_dates, stored_activities, last_sync, clock, sync, dashboard, db, pass, points, env, strava>>

\* bulk: saveActivities: await redis.set(STORED_ACTIVITIES_KEY, merged), and
\* the response
PostBulkSaveSet ==
    /\ post.pc = "redis.set"
    /\ "dates" \in DOMAIN post.body
    /\ stored_activities' = MergeActivities(post.existing, post.activities)
    /\ post' = [PostIdle EXCEPT !.response =
            [status |-> 200, success |-> TRUE, count |-> Cardinality(DOMAIN post.body.dates)]]
    /\ hist' = Disturbed
    /\ UNCHANGED <<feed, activity_dates, last_sync, clock, sync, dashboard, db, pass, points, env, strava>>

\* the response of the single path, once both of its calls have returned
SingleResponse(body) ==
    [status |-> 200, success |-> TRUE, activityId |-> body.activityId, date |-> body.date]

\* the same, when saveActivityDate may have returned false
SingleOutcome(p) ==
    IF p.dateSuccess THEN SingleResponse(p.body)
    ELSE [status |-> 500, error |-> "Failed to save date"]

\* single: saveActivityDate: redis.hset(ACTIVITY_DATES_KEY, {[activityId]: date})
PostSingleHSet ==
    /\ post.pc \in {"getStoredActivities", "redis.set", "saveActivityDate"}
    /\ "activityId" \in DOMAIN post.body
    /\ ~post.hset
    /\ activity_dates' = HSet(activity_dates, post.body.activityId :> post.body.date)
    /\ post' = IF post.pc = "saveActivityDate"
               THEN [PostIdle EXCEPT !.response = SingleResponse(post.body)]
               ELSE [post EXCEPT !.hset = TRUE]
    /\ hist' = Disturbed
    /\ UNCHANGED <<feed, stored_activities, last_sync, clock, sync, dashboard, db, pass, points, env, strava>>

\* single: updateStoredActivityDate: activities = await getStoredActivities()
PostSingleGet ==
    /\ post.pc = "getStoredActivities"
    /\ "activityId" \in DOMAIN post.body
    /\ post' = [post EXCEPT !.pc = "redis.set", !.activities = stored_activities]
    /\ hist' = Disturbed
    /\ UNCHANGED <<feed, activity_dates, stored_activities, last_sync, clock, sync, dashboard, db, pass, points, env, strava>>

\* single: updateStoredActivityDate: await redis.set(STORED_ACTIVITIES_KEY, updated)
PostSingleSet ==
    /\ post.pc = "redis.set"
    /\ "activityId" \in DOMAIN post.body
    /\ stored_activities' = WithDate(post.activities, post.body.activityId, post.body.date)
    /\ post' = IF post.hset
               THEN [PostIdle EXCEPT !.response = SingleOutcome(post)]
               ELSE [post EXCEPT !.pc = "saveActivityDate", !.activities = <<>>]
    /\ hist' = Disturbed
    /\ UNCHANGED <<feed, activity_dates, last_sync, clock, sync, dashboard, db, pass, points, env, strava>>

(***************************************************************************)
(* The source and the users of the sync and of the date correction.        *)
(***************************************************************************)
\* a run and the same run retitled by its athlete, and a ride the source
\* reports without a date
SyncCatalogue ==
    { Activity("Pete", "Stone", "AM", "Run", 5200, 1455, Feb3),
      Activity("Pete", "Stone", "PM", "Run", 5200, 1455, Feb3),
      Activity("Ad", "Smith", "AM", "Ride", 5200, 0, <<>>) }

\* what the club endpoint may return to a fetch: the source changes between
\* requests, and a sync observes it only here
Batches ==
    UNION {[1..n -> SyncCatalogue] : n \in 0..MaxFeed}

\* the ids a user corrects: those of the catalogue's activities
PostIds ==
    {generateActivityId(a, getAthleteDisplayName(a), EmptyMap) : a \in SyncCatalogue}

PostDates == {Feb4}

SingleBodies == {[activityId |-> id, date |-> date] : id \in PostIds, date \in PostDates}

BulkBodies == {[dates |-> (id :> date)] : id \in PostIds, date \in PostDates}

Post ==
    \/ \E body \in SingleBodies \cup BulkBodies : PostReceive(body)
    \/ PostBulkHSet
    \/ PostBulkGet
    \/ PostBulkSaveGet
    \/ PostBulkSaveSet
    \/ PostSingleHSet
    \/ PostSingleGet
    \/ PostSingleSet

Sync ==
    \/ SyncUnauthorized
    \/ SyncGetActivityDates
    \/ SyncGetStoredActivities
    \/ \E batch \in Batches : SyncFetch(batch)
    \/ SyncSaveGet
    \/ SyncSaveSet
    \/ SyncSetLastSync
    \/ SyncRespond

Next == Sync \/ Post

Spec == Init /\ [][Next]_vars

(***************************************************************************)
(* The error paths: a Redis or Strava call that throws, and a date         *)
(* correction whose body fails the handler's checks.                       *)
(***************************************************************************)
ServerError(message) == [status |-> 500, success |-> FALSE, error |-> message]

\* getActivityDates: redis.hgetall throws, {} is returned
SyncGetActivityDatesFails ==
    /\ sync.pc = "idle"
    /\ clock < MaxSyncs
    /\ clock' = clock + 1
    /\ sync' = [SyncIdle EXCEPT !.pc = "getStoredActivities"]
    /\ hist' = Disturbed
    /\ UNCHANGED <<feed, activity_dates, stored_activities, last_sync, post, dashboard, db, pass, points, env, strava>>

\* getStoredActivities: redis.get throws, [] is returned
SyncGetStoredActivitiesFails ==
    /\ sync.pc = "getStoredActivities"
    /\ sync' = [sync EXCEPT !.pc = "fetchAllClubActivities", !.readFailed = TRUE]
    /\ hist' = [Disturbed EXCEPT !.before = Ids(stored_activities)]
    /\ UNCHANGED <<feed, activity_dates, stored_activities, last_sync, clock, post, dashboard, db, pass, points, env, strava>>

\* fetchAllClubActivities with setLastSync run before the error response
SyncFetchFailsMarked ==
    /\ sync.pc = "fetchAllClubActivities"
    /\ last_sync' = clock
    /\ sync' = [SyncIdle EXCEPT !.response = ServerError("Failed to sync Strava data")]
    /\ hist' = Disturbed
    /\ UNCHANGED <<feed, activity_dates, stored_activities, clock, post, dashboard, db, pass, points, env, strava>>

\* fetchAllClubActivities throws (token refresh or a page request): the
\* handler's catch answers 500
SyncFetchFails ==
    /\ sync.pc = "fetchAllClubActivities"
    /\ sync' = [SyncIdle EXCEPT !.response = ServerError("Failed to sync Strava data")]
    /\ hist' = Disturbed
    /\ UNCHANGED <<feed, activity_dates, stored_activities, last_sync, clock, post, dashboard, db, pass, points, env, strava>>

\* saveActivities: its getStoredActivities returns [] because redis.get throws
SyncSaveGetFails ==
    /\ sync.pc = "saveActivities"
    /\ sync' = [sync EXCEPT !.pc = "redis.set", !.existing = <<>>, !.readFailed = TRUE]
    /\ hist' = Disturbed
    /\ UNCHANGED <<feed, activity_dates, stored_activities, last_sync, clock, post, dashboard, db, pass, points, env, strava>>

\* saveActivities: redis.set throws, false is returned and the handler goes on
SyncSaveSetFails ==
    /\ sync.pc = "redis.set"
    /\ sync' = [sync EXCEPT !.pc = "setLastSync", !.saved = FALSE]
    /\ hist' = Disturbed
    /\ UNCHANGED <<feed, activity_dates, stored_activities, last_sync, clock, post, dashboard, db, pass, points, env, strava>>

\* setLastSync: redis.set throws, false is returned and the handler goes on
SyncSetLastSyncFails ==
    /\ sync.pc = "setLastSync"
    /\ sync' = [sync EXCEPT !.pc = "getLastSync"]
    /\ UNCHANGED <<feed, activity_dates, stored_activities, last_sync, clock, post, hist, dashboard, db, pass, points, env, strava>>

\* getLastSync: redis.get throws, null is returned; the response is the same
\* but for lastSync
SyncRespondFails ==
    /\ sync.pc = "getLastSync"
    /\ sync' = [SyncIdle EXCEPT !.response =
            [status |-> 200, success |-> TRUE,
             stats |-> [fetchedFromStrava |-> Len(sync.stravaActivities),
                        newActivities |-> sync.newCount,
                        previouslyStored |-> sync.existingCount,
                        totalStored |-> sync.totalCount,
                        lastSync |-> 0]]]
    /\ UNCHANGED <<feed, activity_dates, stored_activities, last_sync, clock, post, hist, dashboard, db, pass, points, env, strava>>

\* single path: a body without activityId or date, or with a date of another
\* form, is answered 400
PostReject(body) ==
    /\ post.pc = "idle"
    /\ "dates" \notin DOMAIN body
    /\ ~IsValidSingle(body)
    /\ post.response.status # 400
    /\ post' = [PostIdle EXCEPT !.response = [status |-> 400]]
    /\ UNCHANGED <<feed, activity_dates, stored_activities, last_sync, clock, sync, hist, dashboard, db, pass, points, env, strava>>

\* bulk: saveActivityDates returns false, the handler answers 500
PostBulkHSetFails ==
    /\ post.pc = "saveActivityDates"
    /\ post' = [PostIdle EXCEPT !.response = [status |-> 500, error |-> "Failed to save dates"]]
    /\ hist' = Disturbed
    /\ UNCHANGED <<feed, activity_dates, stored_activities, last_sync, clock, sync, dashboard, db, pass, points, env, strava>>

\* bulk: getStoredActivities returns [] because redis.get throws
PostBulkGetFails ==
    /\ post.pc = "getStoredActivities"
    /\ "dates" \in DOMAIN post.body
    /\ post' = [post EXCEPT !.pc = "saveActivities", !.activities = <<>>, !.readFailed = TRUE]
    /\ hist' = Disturbed
    /\ UNCHANGED <<feed, activity_dates, stored_activities, last_sync, clock, sync, dashboard, db, pass, points, env, strava>>

\* bulk: saveActivities: its getStoredActivities returns []
PostBulkSaveGetFails ==
    /\ post.pc = "saveActivities"
    /\ post' = [post EXCEPT !.pc = "redis.set", !.existing = <<>>, !.readFailed = TRUE]
    /\ hist' = Disturbed
    /\ UNCHANGED <<feed, activity_dates, stored_activities, last_sync, clock, sync, dashboard, db, pass, points, env, strava>>

\* bulk: saveActivities: redis.set throws; the handler answers success
PostBulkSaveSetFails ==
    /\ post.pc = "redis.set"
    /\ "dates" \in DOMAIN post.body
    /\ post' = [PostIdle EXCEPT !.response =
            [status |-> 200, success |-> TRUE, count |-> Cardinality(DOMAIN post.body.dates)]]
    /\ hist' = Disturbed
    /\ UNCHANGED <<feed, activity_dates, stored_activities, last_sync, clock, sync, dashboard, db, pass, points, env, strava>>

\* single: saveActivityDate returns false because redis.hset throws
PostSingleHSetFails ==
    /\ post.pc \in {"getStoredActivities", "redis.set", "saveActivityDate"}
    /\ "activityId" \in DOMAIN post.body
    /\ ~post.hset
    /\ post' = IF post.pc = "saveActivityDate"
               THEN [PostIdle EXCEPT !.response = SingleOutcome([post EXCEPT !.dateSuccess = FALSE])]
               ELSE [post EXCEPT !.hset = TRUE, !.dateSuccess = FALSE]
    /\ hist' = Disturbed
    /\ UNCHANGED <<feed, activity_dates, stored_activities, last_sync, clock, sync, dashboard, db, pass, points, env, strava>>

\* single: updateStoredActivityDate: getStoredActivities returns []
PostSingleGetFails ==
    /\ post.pc = "getStoredActivities"
    /\ "activityId" \in DOMAIN post.body
    /\ post' = [post EXCEPT !.pc = "redis.set", !.activities = <<>>, !.readFailed = TRUE]
    /\ hist' = Disturbed
    /\ UNCHANGED <<feed, activity_dates, stored_activities, last_sync, clock, sync, dashboard, db, pass, points, env, strava>>

\* single: updateStoredActivityDate: redis.set throws, false is returned and
\* ignored
PostSingleSetFails ==
    /\ post.pc = "redis.set"
    /\ "activityId" \in DOMAIN post.body
    /\ post' = IF post.hset
               THEN [PostIdle EXCEPT !.response = SingleOutcome(post)]
               ELSE [post EXCEPT !.pc = "saveActivityDate", !.activities = <<>>]
    /\ hist' = Disturbed
    /\ UNCHANGED <<feed, activity_dates, stored_activities, last_sync, clock, sync, dashboard, db, pass, points, env, strava>>

\* a manual date typed day first: not of the form YYYY-MM-DD
Malformed == <<"03/02/2026">>

ErrorActivity == Activity("Pete", "Stone", "AM", "Run", 5200, 1455, Feb3)

ErrorId == generateActivityId(ErrorActivity, getAthleteDisplayName(ErrorActivity), EmptyMap)

ErrorBatches == { <<>>, <<ErrorActivity>> }

ErrorBodies ==
    { [activityId |-> ErrorId, date |-> Feb4],
      [activityId |-> ErrorId, date |-> Malformed],
      [activityId |-> ErrorId],
      [dates |-> (ErrorId :> Feb4)],
      [dates |-> (ErrorId :> Malformed)] }

SyncWithErrors ==
    \/ SyncUnauthorized
    \/ SyncGetActivityDates
    \/ SyncGetActivityDatesFails
    \/ SyncGetStoredActivities
    \/ SyncGetStoredActivitiesFails
    \/ \E batch \in ErrorBatches : SyncFetch(batch)
    \/ SyncFetchFails
    \/ SyncSaveGet
    \/ SyncSaveGetFails
    \/ SyncSaveSet
    \/ SyncSaveSetFails
    \/ SyncSetLastSync
    \/ SyncSetLastSyncFails
    \/ SyncRespond
    \/ SyncRespondFails

PostWithErrors ==
    \/ \E body \in ErrorBodies : PostReceive(body)
    \/ \E body \in ErrorBodies : PostReject(body)
    \/ PostBulkHSet
    \/ PostBulkHSetFails
    \/ PostBulkGet
    \/ PostBulkGetFails
    \/ PostBulkSaveGet
    \/ PostBulkSaveGetFails
    \/ PostBulkSaveSet
    \/ PostBulkSaveSetFails
    \/ PostSingleHSet
    \/ PostSingleHSetFails
    \/ PostSingleGet
    \/ PostSingleGetFails
    \/ PostSingleSet
    \/ PostSingleSetFails

ErrorNext == SyncWithErrors \/ PostWithErrors

ErrorSpec == Init /\ [][ErrorNext]_vars

(***************************************************************************)
(* The operations of lib/db on the stored collection, called with any      *)
(* argument by callers whose reads and writes interleave.                  *)
(***************************************************************************)
\* removeActivitiesByIds: the array written for the array read
RemoveByIds(activities, idsToRemove) ==
    SelectSeq(activities, LAMBDA a : a.id \notin idsToRemove)

\* the record a sync stores for an activity that is new to store and overrides
StoredOf(activity) ==
    stravaToStoredActivity(activity,
        generateActivityId(activity, getAthleteDisplayName(activity), EmptyMap),
        IF SourceDate(activity) # <<>> THEN SourceDate(activity) ELSE Unknown)

DbAM == StoredOf(Activity("Pete", "Stone", "AM", "Run", 5200, 1455, Feb3))

DbPM == StoredOf(Activity("Pete", "Stone", "PM", "Run", 5200, 1455, Feb3))

\* arrays handed to saveActivities; the last holds one id twice
DbSaveArgs ==
    { <<DbAM>>, <<DbAM, DbPM>>, <<[DbPM EXCEPT !.date = Unknown], DbPM>> }

DbUpdateArgs == { [activityId |-> DbAM.id, date |-> Feb4] }

DbRemoveArgs == { {}, {DbAM.id} }

\* saveActivities(activities), updateStoredActivityDate(activityId, date) or
\* removeActivitiesByIds(idsToRemove) is called
DbCall(c, op, arg) ==
    /\ db[c].pc = "idle"
    /\ db' = [db EXCEPT ![c] =
          IF op = "removeActivitiesByIds" /\ arg = {}
          THEN [DbIdle EXCEPT !.op = op, !.result = "true"]
          ELSE [DbIdle EXCEPT !.pc = "getStoredActivities", !.op = op, !.arg = arg]]
    /\ UNCHANGED <<feed, activity_dates, stored_activities, last_sync, clock, sync, post, hist, dashboard, pass, points, env, strava>>

\* getStoredActivities: the stored array, or [] when redis.get throws
DbGet(c, ok) ==
    /\ db[c].pc = "getStoredActivities"
    /\ db' = [db EXCEPT ![c].pc = "redis.set",
                        ![c].activities = IF ok THEN stored_activities ELSE <<>>]
    /\ UNCHANGED <<feed, activity_dates, stored_activities, last_sync, clock, sync, post, hist, dashboard, pass, points, env, strava>>

\* the array an operation writes for the array it read
DbWritten(call) ==
    CASE call.op = "saveActivities" -> MergeActivities(call.activities, call.arg)
      [] call.op = "updateStoredActivityDate" ->
             WithDate(call.activities, call.arg.activityId, call.arg.date)
      [] call.op = "removeActivitiesByIds" -> RemoveByIds(call.activities, call.arg)

\* redis.set(STORED_ACTIVITIES_KEY, ...) and the boolean returned: false when
\* redis.set throws
DbSet(c, ok) ==
    /\ db[c].pc = "redis.set"
    /\ stored_activities' = IF ok THEN DbWritten(db[c]) ELSE stored_activities
    /\ db' = [db EXCEPT ![c] = [DbIdle EXCEPT !.op = db[c].op, !.arg = db[c].arg,
                                               !.result = IF ok THEN "true" ELSE "false"]]
    /\ UNCHANGED <<feed, activity_dates, last_sync, clock, sync, post, hist, dashboard, pass, points, env, strava>>

StoreNext ==
    \/ \E c \in Callers, arg \in DbSaveArgs : DbCall(c, "saveActivities", arg)
    \/ \E c \in Callers, arg \in DbUpdateArgs : DbCall(c, "updateStoredActivityDate", arg)
    \/ \E c \in Callers, arg \in DbRemoveArgs : DbCall(c, "removeActivitiesByIds", arg)
    \/ \E c \in Callers, ok \in BOOLEAN : DbGet(c, ok)
    \/ \E c \in Callers, ok \in BOOLEAN : DbSet(c, ok)

StoreSpec == Init /\ [][StoreNext]_vars

(***************************************************************************)
(* generateActivityId on its own: passes over a batch, each with a new     *)
(* counter map, one call per step.  The pass before is remembered.         *)
(***************************************************************************)
\* one run reported twice with other gain and date, and a run whose title
\* gives the same hash: 'A' * 31 + 'a' = 'B' * 31 + 'B'
IdCatalogue ==
    { Activity("Pete", "Stone", "Aa", "Run", 5200, 1455, Feb3),
      Activity("Pete", "Stone", "Aa", "Run", 5200, 600, Feb4),
      Activity("Pete", "Stone", "BB", "Run", 5200, 1455, Feb3) }

IdBatches == UNION {[1..n -> IdCatalogue] : n \in 0..MaxPass}

\* const usedIds = new Map<string, number>(), before the loop over a batch
PassBegin(batch) ==
    /\ Len(pass.ids) = Len(pass.stravaActivities)
    /\ pass' = [stravaActivities |-> batch, usedIds |-> EmptyMap, ids |-> <<>>,
                prev |-> [stravaActivities |-> pass.stravaActivities, ids |-> pass.ids]]
    /\ UNCHANGED <<feed, activity_dates, stored_activities, last_sync, clock, sync, post, hist, dashboard, db, points, env, strava>>

\* the call of generateActivityId for the next activity of the batch
PassStep ==
    /\ Len(pass.ids) < Len(pass.stravaActivities)
    /\ LET activity == pass.stravaActivities[Len(pass.ids) + 1]
           athleteName == getAthleteDisplayName(activity)
       IN  pass' = [pass EXCEPT
               !.ids = Append(@, generateActivityId(activity, athleteName, pass.usedIds)),
               !.usedIds = UsedIdsAfter(activity, athleteName, @)]
    /\ UNCHANGED <<feed, activity_dates, stored_activities, last_sync, clock, sync, post, hist, dashboard, db, points, env, strava>>

IdNext == (\E batch \in IdBatches : PassBegin(batch)) \/ PassStep

IdSpec == Init /\ [][IdNext]_vars

(***************************************************************************)
(* calculatePoints called on its own: any Strava type of the map and two   *)
(* the map does not know, distances and gains around the points' steps.    *)
(***************************************************************************)
PointsTypes == DOMAIN ACTIVITY_TYPE_MAP \cup {"Yoga", "Walk"}

PointsDistances == {0, 909, 910, 2499, 2500, 3999, 4000, 5200, 10000}

PointsGains == {0, 999, 1000, 1455, 1999, 2000}

CalculatePoints(stravaType, distanceMeters, elevationGain) ==
    /\ points' = [stravaType |-> stravaType, distanceMeters |-> distanceMeters,
                  elevationGain |-> elevationGain,
                  result |-> calculatePoints(stravaType, distanceMeters, elevationGain)]
    /\ UNCHANGED <<feed, activity_dates, stored_activities, last_sync, clock, sync, post, hist, dashboard, db, pass, env, strava>>

PointsNext ==
    \E stravaType \in PointsTypes, distanceMeters \in PointsDistances,
       elevationGain \in PointsGains :
        CalculatePoints(stravaType, distanceMeters, elevationGain)

PointsSpec == Init /\ [][PointsNext]_vars

(***************************************************************************)
(* lib/strava: the token cache of getAccessToken and the pagination of     *)
(* fetchAllClubActivities.  A page is the number of its records; time is   *)
(* in seconds.  A restart of the process empties the cache.                *)
(***************************************************************************)
PerPage == 200

MaxPages == 5

TokenBuffer == 300

MaxNow == 602

Ticks == {300, 301}

PageLengths == {0, 57, PerPage}

Tokens == {"token-a", "token-b"}

\* expires_at of a token response: short-lived, or beyond the buffer
Lifetimes == {100, 601}

\* cachedAccessToken && tokenExpiresAt > now + 300, without the buffer
IsTokenUnexpired(cachedAccessToken, tokenExpiresAt, now) ==
    cachedAccessToken # Null /\ tokenExpiresAt > now

\* cachedAccessToken && tokenExpiresAt > now + 300
IsTokenFresh(cachedAccessToken, tokenExpiresAt, now) ==
    cachedAccessToken # Null /\ tokenExpiresAt > now + TokenBuffer

\* the loop of fetchAllClubActivities goes on after any page that is not empty
IsLastPageWhenEmpty(length, page) == length = 0 \/ page + 1 > MaxPages

\* the loop of fetchAllClubActivities ends with this page: it is empty, or
\* shorter than perPage, or page++ has passed the safety limit
IsLastPage(length, page) ==
    length = 0 \/ length < PerPage \/ page + 1 > MaxPages

\* allActivities.push(...activities)
PushAll(allActivities, length) ==
    IF length = 0 THEN allActivities ELSE Append(allActivities, length)

Returned(allActivities) == [outcome |-> "returned", activities |-> allActivities]

Thrown == [outcome |-> "thrown", activities |-> <<>>]

\* a new fetchAllClubActivities: allActivities = [], page = 1
FetchAllClubActivities ==
    /\ strava.pc = "idle"
    /\ strava' = [strava EXCEPT !.pc = "fetchClubActivities", !.page = 1,
                                !.allActivities = <<>>, !.received = <<>>,
                                !.contacts = 0, !.tokenOutcome = "none",
                                !.result = [outcome |-> "none", activities |-> <<>>]]
    /\ UNCHANGED <<feed, activity_dates, stored_activities, last_sync, clock, sync, post, hist, dashboard, db, pass, points, env>>

\* fetchClubActivities: STRAVA_CLUB_ID is not set
ClubIdMissing ==
    /\ strava.pc = "fetchClubActivities"
    /\ ~env.clubId
    /\ strava' = [strava EXCEPT !.pc = "idle", !.result = Thrown]
    /\ UNCHANGED <<feed, activity_dates, stored_activities, last_sync, clock, sync, post, hist, dashboard, db, pass, points, env>>

\* getAccessToken returns the cached token; the page request goes out
TokenReuse ==
    /\ strava.pc = "fetchClubActivities"
    /\ env.clubId
    /\ IsTokenFresh(strava.cachedAccessToken, strava.tokenExpiresAt, strava.now)
    /\ strava' = [strava EXCEPT !.pc = "page", !.accessToken = strava.cachedAccessToken,
                                !.tokenOutcome = "cached",
                                !.before = [cachedAccessToken |-> strava.cachedAccessToken,
                                            tokenExpiresAt |-> strava.tokenExpiresAt]]
    /\ UNCHANGED <<feed, activity_dates, stored_activities, last_sync, clock, sync, post, hist, dashboard, db, pass, points, env>>

\* getAccessToken throws: a credential is not set
TokenMissingCredentials ==
    /\ strava.pc = "fetchClubActivities"
    /\ env.clubId
    /\ ~IsTokenFresh(strava.cachedAccessToken, strava.tokenExpiresAt, strava.now)
    /\ ~env.credentials
    /\ strava' = [strava EXCEPT !.pc = "idle", !.tokenOutcome = "failed",
                                !.before = [cachedAccessToken |-> strava.cachedAccessToken,
                                            tokenExpiresAt |-> strava.tokenExpiresAt],
                                !.result = Thrown]
    /\ UNCHANGED <<feed, activity_dates, stored_activities, last_sync, clock, sync, post, hist, dashboard, db, pass, points, env>>

\* getAccessToken posts to the token endpoint
TokenRequest ==
    /\ strava.pc = "fetchClubActivities"
    /\ env.clubId
    /\ ~IsTokenFresh(strava.cachedAccessToken, strava.tokenExpiresAt, strava.now)
    /\ env.credentials
    /\ strava' = [strava EXCEPT !.pc = "token", !.contacts = @ + 1,
                                !.tokenOutcome = "none",
                                !.before = [cachedAccessToken |-> strava.cachedAccessToken,
                                            tokenExpiresAt |-> strava.tokenExpiresAt]]
    /\ UNCHANGED <<feed, activity_dates, stored_activities, last_sync, clock, sync, post, hist, dashboard, db, pass, points, env>>

\* the token endpoint answers OK: the cache is replaced, the page request goes out
TokenRefreshed(access_token, lifetime) ==
    /\ strava.pc = "token"
    /\ strava' = [strava EXCEPT !.pc = "page", !.cachedAccessToken = access_token,
                                !.tokenExpiresAt = strava.now + lifetime,
                                !.accessToken = access_token,
                                !.tokenOutcome = "refreshed"]
    /\ UNCHANGED <<feed, activity_dates, stored_activities, last_sync, clock, sync, post, hist, dashboard, db, pass, points, env>>

\* the token endpoint answers not OK: getAccessToken throws
TokenRefused ==
    /\ strava.pc = "token"
    /\ strava' = [strava EXCEPT !.pc = "idle", !.tokenOutcome = "failed", !.result = Thrown]
    /\ UNCHANGED <<feed, activity_dates, stored_activities, last_sync, clock, sync, post, hist, dashboard, db, pass, points, env>>

\* the page request answers not OK: fetchClubActivities throws
PageFails ==
    /\ strava.pc = "page"
    /\ strava' = [strava EXCEPT !.pc = "idle", !.result = Thrown]
    /\ UNCHANGED <<feed, activity_dates, stored_activities, last_sync, clock, sync, post, hist, dashboard, db, pass, points, env>>

\* a page arrives: the body of the loop of fetchAllClubActivities
PageArrives(length) ==
    /\ strava.pc = "page"
    /\ LET allActivities == PushAll(strava.allActivities, length)
       IN  strava' =
             IF IsLastPage(length, strava.page)
             THEN [strava EXCEPT !.pc = "idle", !.allActivities = allActivities,
                                 !.received = Append(@, length),
                                 !.result = Returned(allActivities)]
             ELSE [strava EXCEPT !.pc = "fetchClubActivities",
                                 !.allActivities = allActivities,
                                 !.received = Append(@, length),
                                 !.page = @ + 1]
    /\ UNCHANGED <<feed, activity_dates, stored_activities, last_sync, clock, sync, post, hist, dashboard, db, pass, points, env>>

\* time passes
Tick(seconds) ==
    /\ strava.now + seconds <= MaxNow
    /\ strava' = [strava EXCEPT !.now = @ + seconds]
    /\ UNCHANGED <<feed, activity_dates, stored_activities, last_sync, clock, sync, post, hist, dashboard, db, pass, points, env>>

\* the process starts again with the settings given: the module's variables
\* have their initial values
Restart(settings) ==
    /\ strava.pc = "idle"
    /\ env' = settings
    /\ strava' = [StravaIdle EXCEPT !.now = strava.now]
    /\ UNCHANGED <<feed, activity_dates, stored_activities, last_sync, clock, sync, post, hist, dashboard, db, pass, points>>

Settings == [clubId : BOOLEAN, credentials : BOOLEAN]

StravaNext ==
    \/ FetchAllClubActivities
    \/ ClubIdMissing
    \/ TokenReuse
    \/ TokenMissingCredentials
    \/ TokenRequest
    \/ \E access_token \in Tokens, lifetime \in Lifetimes :
          TokenRefreshed(access_token, lifetime)
    \/ TokenRefused
    \/ PageFails
    \/ \E length \in PageLengths : PageArrives(length)
    \/ \E seconds \in Ticks : Tick(seconds)
    \/ \E settings \in Settings : Restart(settings)

StravaSpec == Init /\ [][StravaNext]_vars

(***************************************************************************)
(* The dashboard and the sync over one and the same batch: both fetch the  *)
(* club's activities, the dashboard aggregates them and the sync gives     *)
(* each an id.                                                             *)
(***************************************************************************)
\* Zoe Q. is in no team.  The hash of 'Zoe Q.|Aa|3308|Run' is 464177156, that of
\* 'Keith S.|AM|3007|Ride' is 464177156.
SameBatchCatalogue ==
    { Activity("Zoe", "Quinn", "Aa", "Run", 3308, 120, Feb3),
      Activity("Keith", "Smith", "AM", "Ride", 3007, 300, Feb3),
      Activity("Pete", "Stone", "AM", "Run", 5200, 1455, Feb4),
      Activity("Zoe", "Quinn", "AM", "Run", 5200, 1455, Feb4) }

SameBatches == UNION {[1..n -> SameBatchCatalogue] : n \in 0..MaxPass}

\* the club's activities change; the sync fetches them and starts its loop
\* with a new usedIds map
SameBatchFetch(batch) ==
    /\ Len(pass.ids) = Len(pass.stravaActivities)
    /\ feed' = batch
    /\ pass' = [stravaActivities |-> batch, usedIds |-> EmptyMap, ids |-> <<>>,
                prev |-> [stravaActivities |-> <<>>, ids |-> <<>>]]
    /\ UNCHANGED <<activity_dates, stored_activities, last_sync, clock, sync, post, hist, dashboard, db, points, env, strava>>

SameBatchNext ==
    \/ \E batch \in SameBatches : SameBatchFetch(batch)
    \/ PassStep
    \/ DashboardGET

SameBatchSpec == Init /\ [][SameBatchNext]_vars

(***************************************************************************)
(* Reference quantities for the aggregation claims, computed from the      *)
(* batch and the stored dates the last dashboard response was built from.  *)
(***************************************************************************)
Batch == dashboard.stravaActivities

NameAt(i) == getAthleteDisplayName(Batch[i])

TeamAt(i) == getAthleteTeam(NameAt(i))

CategoryAt(i) ==
    IF TypeOf(Batch[i]) \in DOMAIN ACTIVITY_TYPE_MAP
    THEN ACTIVITY_TYPE_MAP[TypeOf(Batch[i])] ELSE "Other"

\* the id of the i-th activity: its base id, suffixed by the number of earlier
\* team activities of the batch with the same base id
IdAt(i) ==
    LET base == BaseId(Batch[i], NameAt(i))
        n == Cardinality({j \in 1..(i - 1) :
                TeamAt(j) # Null /\ BaseId(Batch[j], NameAt(j)) = base})
    IN  IF n = 0 THEN base ELSE base \o <<95>> \o NumberToString(n)

DateAt(i) == DashboardDate(Batch[i], IdAt(i), dashboard.storedDates)

\* per activity of the batch: athlete, team, category and resolved date
Resolved ==
    [i \in DOMAIN Batch |->
        [name |-> NameAt(i), team |-> TeamAt(i), category |-> CategoryAt(i),
         date |-> DateAt(i)]]

\* the activities that count: of a team member, dated inside the scoring month
InWindow(r) == {i \in DOMAIN r : r[i].team # Null /\ isFebruaryActivity(r[i].date)}

Teams == {TEMPO_TANTRUMS, POINTS_PINTS}

PerKmCategories == {c \in DOMAIN POINTS_CONFIG : POINTS_CONFIG[c].perKm # 0}

\* p = floor(num / den)
IsFloorOf(p, num, den) == p * den <= num /\ num < (p + 1) * den

\* the value the scoreboard shows for a category and a team (0 without a row)
RowValue(activity, team) ==
    LET board == dashboard.data.scoreboard
        rows == {k \in DOMAIN board : board[k].activity = activity}
        row == board[CHOOSE k \in rows : TRUE]
    IN  IF rows = {} THEN 0
        ELSE IF team = TEMPO_TANTRUMS THEN row.tempoTantrums ELSE row.pointsPints

\* metres of the activities in I
Metres(I) == SumFn([i \in I |-> Batch[i].distance])

OfTeam(r, team) == {i \in InWindow(r) : r[i].team = team}

OfAthlete(r, name) == {i \in InWindow(r) : r[i].name = name}

OfCategory(r, I, category) == {i \in I : r[i].category = category}

Eligible(r, I) == {i \in I : r[i].category \in ELEVATION_ELIGIBLE_TYPES}

\* metres of elevation gain of the activities in I that are elevation-eligible
EligibleGain(r, I) == SumFn([i \in Eligible(r, I) |-> Batch[i].total_elevation_gain])

(***************************************************************************)
(* C1: for every per-kilometre category and each team the scoreboard holds *)
(* floor(S * rate), S the summed km of the team's in-window activities of  *)
(* that category: the floor is taken once, of the sum.                     *)
(***************************************************************************)
C1_ScoreboardFloorsTheSum ==
    dashboard.served =>
        LET r == Resolved
        IN  \A category \in PerKmCategories, team \in Teams :
                /\ IsFloorOf(RowValue(category, team),
                             Metres(OfCategory(r, OfTeam(r, team), category))
                                 * POINTS_CONFIG[category].perKm,
                             100000)
                /\ Cardinality({k \in DOMAIN dashboard.data.scoreboard :
                       dashboard.data.scoreboard[k].activity = category}) <= 1

\* two activities of one team and category whose per-activity floors add up to
\* less than the row: 5.2 km and 4.9 km of Road Run give 10, not 5 + 4
C1_Witness ==
    /\ dashboard.served
    /\ LET r == Resolved
       IN  \E team \in Teams :
              LET I == OfCategory(r, OfTeam(r, team), "Road Run")
              IN  /\ Cardinality(I) = 2
                  /\ Metres(I) = 10100
                  /\ RowValue("Road Run", team) = 10
                  /\ SumFn([i \in I |-> Batch[i].distance \div 1000]) = 9

(***************************************************************************)
(* C2: the cumulative totals of the last element of dailyTracker equal the *)
(* team totals of the same response, whenever some team activity is in the *)
(* window.                                                                 *)
(***************************************************************************)
C2_LastDailyTotalsEqualTotals ==
    (dashboard.served /\ InWindow(Resolved) # {}) =>
        LET daily == dashboard.data.dailyTracker
        IN  /\ daily # <<>>
            /\ daily[Len(daily)].tempoTotal = dashboard.data.totals.tempoTantrums
            /\ daily[Len(daily)].pintsTotal = dashboard.data.totals.pointsPints

(***************************************************************************)
(* C3: the daily value of a date d and a team is T(d) - T(prev), T(x) the  *)
(* team's cumulative-then-floor total over the in-window activities dated  *)
(* on or before x, and T(prev) = 0 for the first date.                     *)
(***************************************************************************)
\* the total computed from scratch over the in-window activities in I
FloorTotal(r, I) ==
    SumFn([c \in PerKmCategories |->
              (Metres(OfCategory(r, I, c)) * POINTS_CONFIG[c].perKm) \div 100000])
    + POINTS_CONFIG["Workout"].perWorkout * Cardinality(OfCategory(r, I, "Workout"))
    + (EligibleGain(r, I) \div 1000) * ELEVATION_POINTS_PER_1000M

UpTo(r, I, date) == {i \in I : DateKey(r[i].date) <= DateKey(date)}

C3_DailyValueIsDifferenceOfTotals ==
    dashboard.served =>
        LET r == Resolved
            daily == dashboard.data.dailyTracker
            T(k, team) ==
                IF k = 0 THEN 0 ELSE FloorTotal(r, UpTo(r, OfTeam(r, team), daily[k].date))
        IN  \A k \in DOMAIN daily :
                /\ daily[k].tempoTantrums = T(k, TEMPO_TANTRUMS) - T(k - 1, TEMPO_TANTRUMS)
                /\ daily[k].pointsPints = T(k, POINTS_PINTS) - T(k - 1, POINTS_PINTS)

(***************************************************************************)
(* C4: an athlete's totalPoints is the sum over the per-km categories of   *)
(* floor(the athlete's summed km * rate), plus the flat value per workout, *)
(* plus floor(E / 1000) * 6 with E the elevation gain of the athlete's     *)
(* in-window activities in elevation-eligible categories only.             *)
(***************************************************************************)
C4_IndividualTotalFloorsTheSums ==
    dashboard.served =>
        LET r == Resolved
        IN  \A k \in DOMAIN dashboard.data.individuals :
                LET ind == dashboard.data.individuals[k]
                IN  ind.totalPoints = FloorTotal(r, OfAthlete(r, ind.name))

(***************************************************************************)
(* C5: for each team the Elevation row holds floor(M / 1000) * 6, M the    *)
(* summed elevation gain of the team's in-window activities in eligible    *)
(* categories; the floor is taken once, of the team's sum.                 *)
(***************************************************************************)
C5_ElevationRowFloorsTheSum ==
    dashboard.served =>
        LET r == Resolved
        IN  \A team \in Teams :
                LET M == EligibleGain(r, OfTeam(r, team))
                IN  \E q \in 0..(M \div 1000) :
                        /\ IsFloorOf(q, M, 1000)
                        /\ RowValue("Elevation", team) = q * 6

\* 1455 m and then 600 m more for the same team: 12 points, not 6 + 0
C5_Witness ==
    /\ dashboard.served
    /\ LET r == Resolved
       IN  \E team \in Teams :
              LET I == Eligible(r, OfTeam(r, team))
              IN  /\ \E i, j \in I : /\ i # j
                                     /\ Batch[i].total_elevation_gain = 1455
                                     /\ Batch[j].total_elevation_gain = 600
                  /\ EligibleGain(r, OfTeam(r, team)) = 2055
                  /\ RowValue("Elevation", team) = 12
(***************************************************************************)
(* C6: syncing twice over the same source batch, with no date correction   *)
(* taking a step in between, leaves the store after the second sync with   *)
(* the same set of ids, the same date for every id and the same number of  *)
(* records as after the first.                                             *)
(***************************************************************************)
C6_SecondSyncChangesNothing ==
    [][(/\ sync.pc = "redis.set"
        /\ sync'.pc = "setLastSync"
        /\ hist.quiet
        /\ hist.batch = sync.stravaActivities)
       => SameIdsDatesCount(stored_activities', hist.store)]_vars

\* a second sync over the same non-empty batch has written the store
C6_Witness ==
    /\ hist.repeats = 1
    /\ hist.batch # <<>>
    /\ stored_activities # <<>>

(***************************************************************************)
(* Duplicates, as the claims describe them: two records of different id    *)
(* with the same normalised athlete name, the same distance rounded to the *)
(* metre and the same date.                                                *)
(***************************************************************************)
StoredAthleteName(stored) ==
    ToLowerCase(Trim(getAthleteDisplayName(
        [athlete |-> [firstname |-> stored.athleteFirstname,
                      lastname |-> stored.athleteLastname]])))

IsDuplicate(old, new) ==
    /\ old.id # new.id
    /\ old.date # Unknown
    /\ StoredAthleteName(old) = StoredAthleteName(new)
    /\ old.distance = new.distance
    /\ old.date = new.date

(***************************************************************************)
(* C7: when the store holds a record with a known date and a sync resolves *)
(* an activity of a different id with the same athlete, distance and date, *)
(* the old id is absent from the store that the sync writes, and the new   *)
(* id is present.                                                          *)
(***************************************************************************)
C7_DuplicateCollapsesToNewId ==
    [][(sync.pc = "redis.set" /\ sync'.pc = "setLastSync")
       => \A i \in DOMAIN sync.existing, j \in DOMAIN sync.newStoredActivities :
             IsDuplicate(sync.existing[i], sync.newStoredActivities[j])
             => /\ sync.existing[i].id \notin Ids(stored_activities')
                /\ sync.newStoredActivities[j].id \in Ids(stored_activities')]_vars

(***************************************************************************)
(* C8: the date a sync resolves for an activity is the manual override     *)
(* when the override map the sync read has one for the id, else the date   *)
(* of the record stored under the id, else the date of the source, else    *)
(* "Unknown".                                                              *)
(***************************************************************************)
C8_OverrideThenStoredThenSource ==
    sync.pc = "saveActivities"
    => \A k \in DOMAIN sync.newStoredActivities :
          sync.newStoredActivities[k].date =
              OverrideFirstDate(sync.stravaActivities[k], sync.newStoredActivities[k].id,
                                sync.existingStored, sync.storedDates)

(***************************************************************************)
(* C9: when a sync that ran from its first read to its write with no date  *)
(* correction in flight has completed, and no correction has taken a step  *)
(* since, every activity of its batch that has a manual override carries   *)
(* the override date in the store.                                         *)
(***************************************************************************)
C9_OverrideVisibleAfterNextSync ==
    hist.full
    => \A i \in DOMAIN stored_activities :
          (/\ stored_activities[i].id \in hist.ids
           /\ stored_activities[i].id \in DOMAIN activity_dates)
          => stored_activities[i].date = activity_dates[stored_activities[i].id]

(***************************************************************************)
(* C10: no step of a sync or of a date correction removes a stored         *)
(* activity, other than a duplicate of a record that stays.                *)
(***************************************************************************)
C10_NoStoredActivityRemoved ==
    [][\A i \in DOMAIN stored_activities :
          \/ stored_activities[i].id \in Ids(stored_activities')
          \/ \E j \in DOMAIN stored_activities' :
                IsDuplicate(stored_activities[i], stored_activities'[j])]_vars

(***************************************************************************)
(* C11: in every reachable state of the store, after any sequence of       *)
(* saves by syncs and bulk corrections, single date corrections and        *)
(* removals by id, no two stored activities have the same id.              *)
(***************************************************************************)
C11_StoredIdsAreUnique ==
    \A i, j \in DOMAIN stored_activities :
        stored_activities[i].id = stored_activities[j].id => i = j

\* two records are stored after a save whose argument held one id twice
C11_Witness ==
    /\ Len(stored_activities) = 2
    /\ \E c \in Callers :
          /\ db[c].pc = "idle"
          /\ db[c].op = "saveActivities"
          /\ db[c].result = "true"
          /\ Len(db[c].arg) = 2
          /\ db[c].arg[1].id = db[c].arg[2].id

(***************************************************************************)
(* C12: when the fetch from the external source fails during a sync, the   *)
(* sync answers with an error and has performed no write: no step of the   *)
(* sync up to and including the failure changes the stored collection or   *)
(* the last-sync timestamp.                                                *)
(***************************************************************************)
C12_FetchFailureWritesNothing ==
    [][(/\ sync' # sync
        /\ sync.pc \in {"idle", "getStoredActivities", "fetchAllClubActivities"})
       => /\ stored_activities' = stored_activities
          /\ last_sync' = last_sync
          /\ (sync.pc = "fetchAllClubActivities" /\ sync'.pc = "idle")
             => /\ sync'.response.status = 500
                /\ sync'.response.success = FALSE]_vars

\* the second sync has failed in its fetch; what the first one wrote is there
C12_Witness ==
    /\ sync.pc = "idle"
    /\ sync.response.status = 500
    /\ clock = 2
    /\ last_sync = 1
    /\ stored_activities # <<>>

(***************************************************************************)
(* C13: when the write of the merged collection fails during a sync, the   *)
(* sync's response is an error: success is not reported.                   *)
(***************************************************************************)
C13_WriteFailureIsReported ==
    [][(/\ sync.pc = "getLastSync"
        /\ sync'.pc = "idle"
        /\ ~sync.saved)
       => /\ sync'.response.status # 200
          /\ sync'.response.success = FALSE]_vars

(***************************************************************************)
(* C14: an operation of a sync or of a date correction whose read of the   *)
(* stored collection has failed does not replace the collection.           *)
(***************************************************************************)
C14_FailedReadReplacesNothing ==
    [][(\/ sync.readFailed /\ sync.pc = "redis.set" /\ sync'.pc # "redis.set"
        \/ post.readFailed /\ post.pc = "redis.set" /\ post'.pc # "redis.set")
       => Ids(stored_activities) \subseteq Ids(stored_activities')]_vars

(***************************************************************************)
(* C15: a manual date that is not of the form YYYY-MM-DD never reaches the *)
(* override map or a stored activity, by the single or by the bulk path.   *)
(***************************************************************************)
C15_MalformedDateNeverStored ==
    /\ \A id \in DOMAIN activity_dates : IsDateFormat(activity_dates[id])
    /\ \A i \in DOMAIN stored_activities :
          \/ stored_activities[i].date = Unknown
          \/ IsDateFormat(stored_activities[i].date)

(***************************************************************************)
(* Reference quantities for the claims about activities that must not      *)
(* count: the batch with each date resolved beforehand, a part of it, and  *)
(* the aggregates of a dashboard response.                                 *)
(***************************************************************************)
\* the i-th activity of the batch, reported by the source with its resolved date
PreResolved(i) ==
    [Batch[i] EXCEPT !.start_date_local =
        IF DateAt(i) = Unknown THEN <<>> ELSE <<DateAt(i), "07:00:00Z">>]

\* the activities of the batch whose index is in I, in the order of the batch
RECURSIVE SubBatch(_, _)
SubBatch(I, n) ==
    IF n = 0 THEN <<>>
    ELSE IF n \in I THEN Append(SubBatch(I, n - 1), PreResolved(n))
    ELSE SubBatch(I, n - 1)

\* the response for the activities in I alone
Without(I) == processActivities(SubBatch(DOMAIN Batch \ I, Len(Batch)), EmptyMap)

\* the scoring month, as the claims name it
InScoringMonth(date) == date # Unknown /\ date[1] = 2026 /\ date[2] = 2

\* the activities of team members that are undated or dated outside the month
OutOfWindow == {i \in DOMAIN Batch : TeamAt(i) # Null /\ ~InScoringMonth(DateAt(i))}

SameAggregates(a, b) ==
    /\ a.scoreboard = b.scoreboard
    /\ a.totals = b.totals
    /\ a.individuals = b.individuals
    /\ a.dailyTracker = b.dailyTracker

\* the i-th activity of the batch is in the activities of the response
Listed(i) ==
    \E k \in DOMAIN dashboard.data.activities :
        /\ dashboard.data.activities[k].athlete = NameAt(i)
        /\ dashboard.data.activities[k].title = Batch[i].name
        /\ dashboard.data.activities[k].type = TypeOf(Batch[i])

\* the same, under its id and with its resolved date
ListedWithDate(i) ==
    \E k \in DOMAIN dashboard.data.activities :
        /\ dashboard.data.activities[k].id = IdAt(i)
        /\ dashboard.data.activities[k].athlete = NameAt(i)
        /\ dashboard.data.activities[k].title = Batch[i].name
        /\ dashboard.data.activities[k].date = DateAt(i)

(***************************************************************************)
(* C16: an activity of a team member whose resolved date is "Unknown" or   *)
(* outside the scoring month adds nothing to the scoreboard, the totals,   *)
(* the individuals or the daily series - the response has the aggregates   *)
(* of the batch without these activities - and is in the activities list.  *)
(***************************************************************************)
C16_OutOfWindowCountsNothing ==
    dashboard.served =>
        /\ SameAggregates(dashboard.data, Without(OutOfWindow))
        /\ \A i \in OutOfWindow : ListedWithDate(i)

\* a response for an undated activity, one dated in January and one that counts
C16_Witness ==
    /\ dashboard.served
    /\ \E i, j \in OutOfWindow :
          /\ DateAt(i) = Unknown
          /\ DateAt(j) = Jan31
          /\ Batch[i].distance >= 1000
    /\ \E k \in DOMAIN Batch : TeamAt(k) # Null /\ InScoringMonth(DateAt(k))
    /\ dashboard.data.totals.tempoTantrums + dashboard.data.totals.pointsPints > 0

(***************************************************************************)
(* C17: an activity whose athlete is not in the team mapping adds nothing  *)
(* to the scoreboard, the individuals or the daily series, and is in the   *)
(* activities list of the response.                                        *)
(***************************************************************************)
NonMembers == {i \in DOMAIN Batch : TeamAt(i) = Null}

C17_NonMemberListedButUncounted ==
    dashboard.served =>
        /\ SameAggregates(dashboard.data, Without(NonMembers))
        /\ \A i \in NonMembers : Listed(i)

(***************************************************************************)
(* C18: an in-window activity of a team member whose type is not in the    *)
(* type table leaves every scoreboard row, both team totals, the athlete's *)
(* individual total and the values of the daily series as they are without *)
(* it.                                                                     *)
(***************************************************************************)
Others ==
    {i \in DOMAIN Batch : /\ TeamAt(i) # Null
                          /\ InScoringMonth(DateAt(i))
                          /\ TypeOf(Batch[i]) \notin DOMAIN ACTIVITY_TYPE_MAP}

\* totalPoints of an athlete in a response, 0 when the athlete is not in it
IndividualTotal(data, name) ==
    LET S == {k \in DOMAIN data.individuals : data.individuals[k].name = name}
    IN  IF S = {} THEN 0 ELSE data.individuals[CHOOSE k \in S : TRUE].totalPoints

\* the values of a date in the daily series, zeros when the date is not in it
DailyValue(data, date) ==
    LET S == {k \in DOMAIN data.dailyTracker : data.dailyTracker[k].date = date}
    IN  IF S = {} THEN <<0, 0>>
        ELSE LET d == data.dailyTracker[CHOOSE k \in S : TRUE]
             IN  <<d.tempoTantrums, d.pointsPints>>

C18_UnknownTypeScoresNothing ==
    dashboard.served =>
        LET without == Without(Others)
        IN  /\ dashboard.data.scoreboard = without.scoreboard
            /\ dashboard.data.totals = without.totals
            /\ \A i \in DOMAIN Batch :
                  /\ IndividualTotal(dashboard.data, NameAt(i)) = IndividualTotal(without, NameAt(i))
                  /\ DailyValue(dashboard.data, DateAt(i)) = DailyValue(without, DateAt(i))

(***************************************************************************)
(* C19: within one pass generateActivityId never returns the same id       *)
(* twice: the occurrence of a base id that was assigned n times earlier in *)
(* the pass gets the bare base id when n = 0 and base_n when n >= 1.       *)
(***************************************************************************)
PassBase(k) ==
    BaseId(pass.stravaActivities[k], getAthleteDisplayName(pass.stravaActivities[k]))

C19_IdsOfAPassAreDistinct ==
    /\ \A k, m \in DOMAIN pass.ids : pass.ids[k] = pass.ids[m] => k = m
    /\ \A k \in DOMAIN pass.ids :
          LET n == Cardinality({j \in 1..(k - 1) : PassBase(j) = PassBase(k)})
          IN  pass.ids[k] = IF n = 0 THEN PassBase(k)
                            ELSE PassBase(k) \o <<95>> \o NumberToString(n)

\* a finished pass over three activities with one base id, two of them with
\* the same (athlete, title, distance, type)
C19_Witness ==
    /\ Len(pass.ids) = 3
    /\ PassBase(1) = PassBase(2) /\ PassBase(2) = PassBase(3)
    /\ pass.stravaActivities[1] # pass.stravaActivities[2]
    /\ pass.stravaActivities[1].name = pass.stravaActivities[2].name
    /\ pass.ids[3] = PassBase(3) \o <<95, 50>>

(***************************************************************************)
(* C20: the base id is a function of (athlete display name, title,         *)
(* distance, type) only: calls with equal tuples, in one pass or in two,   *)
(* whatever the counter map holds, return ids with the same base; and the  *)
(* full ids are equal whenever the number of earlier occurrences of the    *)
(* base id in the batch is the same.                                       *)
(***************************************************************************)
TupleOf(activity) ==
    <<getAthleteDisplayName(activity), activity.name, activity.distance, TypeOf(activity)>>

\* an id without its suffix: what precedes the first '_'
BasePart(id) ==
    LET S == {i \in DOMAIN id : id[i] = 95}
    IN  IF S = {} THEN id
        ELSE SubSeq(id, 1, (CHOOSE i \in S : \A j \in S : i <= j) - 1)

\* the calls of a pass: activity, id returned, and the number of earlier ids
\* of the pass with the same base
CallsOf(run, which) ==
    {[run |-> which, activity |-> run.stravaActivities[k], id |-> run.ids[k],
      earlier |-> Cardinality({j \in 1..(k - 1) :
                      BasePart(run.ids[j]) = BasePart(run.ids[k])})] : k \in DOMAIN run.ids}

C20_BaseIdDependsOnTupleOnly ==
    \A x, y \in CallsOf(pass, "this") \cup CallsOf(pass.prev, "previous") :
        TupleOf(x.activity) = TupleOf(y.activity)
        => /\ BasePart(x.id) = BasePart(y.id)
           /\ x.earlier = y.earlier => x.id = y.id

\* two finished passes gave ids to activities of one tuple that differ in gain
\* and date: once at the same place among the duplicates, once at another
C20_Witness ==
    /\ Len(pass.ids) = Len(pass.stravaActivities)
    /\ \E x, u \in CallsOf(pass, "this"), y \in CallsOf(pass.prev, "previous") :
          /\ TupleOf(x.activity) = TupleOf(y.activity)
          /\ x.activity # y.activity
          /\ x.earlier = 1 /\ y.earlier = 1
          /\ TupleOf(u.activity) = TupleOf(y.activity)
          /\ u.earlier # y.earlier
          /\ u.id # y.id

(***************************************************************************)
(* C21: calculatePoints gives floor((distanceMeters / 1000) * rate) for a  *)
(* category priced per kilometre, the flat 6 for Workout whatever the      *)
(* distance, and 0 for a type that normalises to "Other"; totalPoints is   *)
(* activityPoints + elevationPoints in every case.                        *)
(***************************************************************************)
\* the rate of a per-km category in hundredths of a point
C21_Rate ==
    "Road Run" :> 100 @@ "Trail Run" :> 110 @@ "Cycle" :> 25 @@ "MTB" :> 40 @@
    "Swim" :> 400 @@ "Paddle Ski" :> 100

C21_ActivityPointsByCategory ==
    points # NoPoints =>
        LET r == points.result
            category == r.normalizedType
        IN  /\ category \in DOMAIN C21_Rate \cup {"Workout", "Other"}
            /\ category \in DOMAIN C21_Rate =>
                  IsFloorOf(r.activityPoints,
                            points.distanceMeters * C21_Rate[category], 100000)
            /\ category = "Workout" => r.activityPoints = 6
            /\ category = "Other" => r.activityPoints = 0
            /\ r.totalPoints = r.activityPoints + r.elevationPoints

\* a trail run of 5.2 km earns floor(5.72) = 5 points, and 6 more for 1455 m
C21_Witness ==
    /\ points # NoPoints
    /\ points.stravaType = "TrailRun"
    /\ points.distanceMeters = 5200
    /\ points.elevationGain = 1455
    /\ points.result.activityPoints = 5
    /\ points.result.totalPoints = 11

(***************************************************************************)
(* C22: for one activity elevationPoints is floor(elevationGain / 1000) *  *)
(* 6 when the normalised category is elevation-eligible, so 0 below 1000 m *)
(* and exactly 6 in [1000, 2000); it is 0 for every other category         *)
(* whatever the gain.                                                      *)
(***************************************************************************)
C22_Eligible == {"Road Run", "Trail Run", "Cycle", "MTB"}

C22_ElevationPointsPerWholeKm ==
    points # NoPoints =>
        LET r == points.result
            gain == points.elevationGain
        IN  IF r.normalizedType \in C22_Eligible
            THEN /\ \E k \in 0..2 : IsFloorOf(k, gain, 1000) /\ r.elevationPoints = k * 6
                 /\ gain < 1000 => r.elevationPoints = 0
                 /\ (1000 <= gain /\ gain < 2000) => r.elevationPoints = 6
            ELSE r.elevationPoints = 0

\* a ride that climbs 1999 m earns 6, not 11
C22_Witness ==
    /\ points # NoPoints
    /\ points.stravaType = "Ride"
    /\ points.elevationGain = 1999
    /\ points.result.elevationPoints = 6

(***************************************************************************)
(* C23: the number of new activities a sync reports is the number of ids   *)
(* resolved from the fetched batch that were not in the store before the   *)
(* sync, and the reported total is the previously stored count plus that   *)
(* number.                                                                 *)
(***************************************************************************)
\* the id of the k-th activity of a batch: its base id, with the number of
\* earlier activities of the batch with that base id as suffix
ResolvedId(batch, k) ==
    LET base(j) == BaseId(batch[j], getAthleteDisplayName(batch[j]))
        n == Cardinality({j \in 1..(k - 1) : base(j) = base(k)})
    IN  IF n = 0 THEN base(k) ELSE base(k) \o <<95>> \o NumberToString(n)

ResolvedIds(batch) == {ResolvedId(batch, k) : k \in DOMAIN batch}

C23_ReportedCountsMatchTheStore ==
    [][(sync.pc = "getLastSync" /\ sync'.pc = "idle" /\ sync'.response.status = 200)
       => LET introduced == ResolvedIds(sync.stravaActivities) \ hist.before
              stats == sync'.response.stats
          IN  /\ stats.newActivities = Cardinality(introduced)
              /\ stats.totalStored = stats.previouslyStored + Cardinality(introduced)]_vars

(***************************************************************************)
(* C24: every row of the scoreboard has nonzero points for at least one    *)
(* team; a category in which both teams have 0 points produces no row.     *)
(***************************************************************************)
C24_NoRowWithoutPoints ==
    \A k \in DOMAIN dashboard.data.scoreboard :
        \/ dashboard.data.scoreboard[k].tempoTantrums # 0
        \/ dashboard.data.scoreboard[k].pointsPints # 0

(***************************************************************************)
(* C25: individuals is in non-increasing order of totalPoints, and two     *)
(* athletes with equal totalPoints appear in the order of their first      *)
(* in-window activities in the input.                                      *)
(***************************************************************************)
\* the activities of team members dated inside the scoring month
Counting == {i \in DOMAIN Batch : TeamAt(i) # Null /\ InScoringMonth(DateAt(i))}

\* the place in the batch of an athlete's first counting activity
FirstCounting(name) ==
    CHOOSE i \in Counting :
        NameAt(i) = name /\ \A j \in Counting : NameAt(j) = name => i <= j

C25_IndividualsSortedStably ==
    dashboard.served =>
        LET individuals == dashboard.data.individuals
        IN  /\ {individuals[k].name : k \in DOMAIN individuals}
                  = {NameAt(i) : i \in Counting}
            /\ \A k, m \in DOMAIN individuals :
                  k < m =>
                     /\ individuals[k].totalPoints >= individuals[m].totalPoints
                     /\ individuals[k].totalPoints = individuals[m].totalPoints
                        => FirstCounting(individuals[k].name)
                               < FirstCounting(individuals[m].name)

\* three athletes: the one inserted last has the most points and comes first,
\* the other two are level and keep the order of their first activities
C25_Witness ==
    /\ dashboard.served
    /\ LET individuals == dashboard.data.individuals
       IN  /\ Len(individuals) = 3
           /\ individuals[1].totalPoints > individuals[2].totalPoints
           /\ individuals[2].totalPoints = individuals[3].totalPoints
           /\ FirstCounting(individuals[2].name) < FirstCounting(individuals[3].name)
           /\ FirstCounting(individuals[3].name) < FirstCounting(individuals[1].name)

(***************************************************************************)
(* C26: the dates of dailyTracker are strictly ascending in chronological  *)
(* order, and a date is in it if and only if an in-window activity of a    *)
(* team member has that resolved date: no date twice, no zero-filled gap.  *)
(***************************************************************************)
\* the calendar day a date string names, as a number that grows with time
CalendarDay(date) == (date[1] * 12 + date[2]) * 31 + date[3]

C26_DailyDatesAscendWithoutGaps ==
    dashboard.served =>
        LET daily == dashboard.data.dailyTracker
        IN  /\ \A k \in 1..(Len(daily) - 1) :
                  CalendarDay(daily[k].date) < CalendarDay(daily[k + 1].date)
            /\ {daily[k].date : k \in DOMAIN daily} = {DateAt(i) : i \in Counting}

(***************************************************************************)
(* C27: fetchAllClubActivities ends after at most 5 page requests of 200   *)
(* records: at the first empty page, at the first page shorter than 200,   *)
(* or after page 5; when a page request fails it throws and hands no page  *)
(* to its caller.                                                          *)
(***************************************************************************)
C27_FetchStopsWithinFivePages ==
    LET received == strava.received
        IsPage(length) == length > 0
    IN  /\ Len(received) <= 5
        /\ strava.page <= 5
        /\ \A k \in 1..(Len(received) - 1) : received[k] = 200
        /\ (received # <<>> /\ (received[Len(received)] < 200 \/ Len(received) = 5))
           => strava.result.outcome = "returned"
        /\ strava.result.outcome = "returned"
           => /\ strava.pc = "idle"
              /\ received # <<>>
              /\ \/ received[Len(received)] < 200
                 \/ Len(received) = 5
              /\ strava.result.activities = SelectSeq(received, IsPage)
        /\ strava.result.outcome = "thrown"
           => strava.pc = "idle" /\ strava.result.activities = <<>>
        /\ strava.pc # "idle" => strava.result.outcome = "none"

\* five full pages have been fetched and returned: the safety limit ended the loop
C27_Witness ==
    /\ strava.result.outcome = "returned"
    /\ strava.received = <<200, 200, 200, 200, 200>>
    /\ Len(strava.result.activities) = 5

(***************************************************************************)
(* C28: getAccessToken returns the cached token, without a request to the  *)
(* token endpoint, exactly when a token is cached and expires more than    *)
(* 300 seconds ahead; a refresh that fails (a credential missing, or an    *)
(* answer that is not OK) throws and leaves the cached token and expiry as *)
(* they were before the attempt.                                           *)
(***************************************************************************)
C28_TokenReusedOnlyWhenFresh ==
    [][/\ (/\ strava.pc = "fetchClubActivities"
           /\ strava'.pc # "fetchClubActivities"
           /\ env.clubId)
          => LET fresh == /\ strava.cachedAccessToken # Null
                          /\ strava.tokenExpiresAt - strava.now > 300
             IN  /\ fresh <=> strava'.tokenOutcome = "cached"
                 /\ fresh => /\ strava'.contacts = strava.contacts
                             /\ strava'.accessToken = strava.cachedAccessToken
                             /\ strava'.pc = "page"
                 /\ (~fresh /\ env.credentials) => strava'.contacts = strava.contacts + 1
                 /\ (~fresh /\ ~env.credentials) => strava'.tokenOutcome = "failed"
       /\ (strava'.tokenOutcome = "failed" /\ strava.tokenOutcome # "failed")
          => /\ strava'.cachedAccessToken = strava.cachedAccessToken
             /\ strava'.tokenExpiresAt = strava.tokenExpiresAt
             /\ strava'.cachedAccessToken = strava'.before.cachedAccessToken
             /\ strava'.tokenExpiresAt = strava'.before.tokenExpiresAt
             /\ strava'.result.outcome = "thrown"]_vars

\* within one fetch the first page went out with the cached token, and for the
\* second the refresh was refused: the stale token is still cached
C28_Witness ==
    /\ strava.tokenOutcome = "failed"
    /\ strava.contacts = 1
    /\ Len(strava.received) = 1
    /\ strava.cachedAccessToken # Null
    /\ strava.tokenExpiresAt - strava.now = 300
    /\ strava.result.outcome = "thrown"

(***************************************************************************)
(* C29: for one and the same batch, the id the dashboard gives to each     *)
(* team member's activity is the id the sync gives to that activity.       *)
(***************************************************************************)
\* the dashboard lists the i-th activity of the batch under this id
ListedUnder(i, id) ==
    \E k \in DOMAIN dashboard.data.activities :
        LET a == dashboard.data.activities[k]
        IN  /\ a.id = id
            /\ a.athlete = NameAt(i)
            /\ a.title = Batch[i].name
            /\ a.type = TypeOf(Batch[i])
            /\ a.elevation = Batch[i].total_elevation_gain

C29_DashboardIdIsSyncId ==
    (/\ dashboard.served
     /\ dashboard.stravaActivities = pass.stravaActivities
     /\ Len(pass.ids) = Len(pass.stravaActivities))
    => \A i \in DOMAIN Batch : TeamAt(i) # Null => ListedUnder(i, pass.ids[i])

(***************************************************************************)
(* Syncs one after another against a source that reports for an activity   *)
(* first no local date and later one: the id depends on neither, so the    *)
(* later sync finds the record of the earlier one.                         *)
(***************************************************************************)
LateDateCatalogue ==
    SyncCatalogue \cup { Activity("Ad", "Smith", "AM", "Ride", 5200, 0, Feb3) }

LateDateBatches ==
    UNION {[1..n -> LateDateCatalogue] : n \in 0..MaxFeed}

LateDateNext ==
    \/ SyncUnauthorized
    \/ SyncGetActivityDates
    \/ SyncGetStoredActivities
    \/ \E batch \in LateDateBatches : SyncFetch(batch)
    \/ SyncSaveGet
    \/ SyncSaveSet
    \/ SyncSetLastSync
    \/ SyncRespond

LateDateSpec == Init /\ [][LateDateNext]_vars

(***************************************************************************)
(* C30: "Unknown" is the last resort of every sync and does not stick: an  *)
(* activity a sync writes has the date "Unknown" only if that sync found   *)
(* neither a manual date for its id nor a local date reported by the       *)
(* source; an activity stored as "Unknown" gets a real date at the next    *)
(* sync in which the source reports one.                                   *)
(***************************************************************************)
\* the date the store holds for an id after the step
DateWritten(id) ==
    stored_activities'[CHOOSE i \in DOMAIN stored_activities' :
                           stored_activities'[i].id = id].date

C30_UnknownIsLastResort ==
    [][(sync.pc = "redis.set" /\ sync'.pc = "setLastSync")
       => \A k \in DOMAIN sync.stravaActivities :
             LET id == ResolvedId(sync.stravaActivities, k)
             IN  /\ id \in Ids(stored_activities')
                 /\ (\/ id \in DOMAIN sync.storedDates
                     \/ sync.stravaActivities[k].start_date_local # <<>>)
                    => DateWritten(id) # Unknown]_vars

=============================================================================
